---- MODULE Spec2Model ----
(***************************************************************************)
(* A model of the MOPAK wave-processing core                               *)
(* (python/ooi_data_explorations/uncabled/process_mopak.py).               *)
(*                                                                         *)
(* Every function of the source that a property below is about is an       *)
(* operator of the same name, computed the way the source computes it.     *)
(* Arrays are sequences; a Python index p (0-based) is position p+1 of     *)
(* the sequence.  Each component has its own specification: its Init       *)
(* draws the inputs of the function from a bounded set and its actions     *)
(* apply the function.                                                     *)
(***************************************************************************)
EXTENDS Integers, Sequences, FiniteSets, TLC

VARIABLES
    \* ---- burst segmenter (identify_samples) ----
    time,        \* ds["time"], whole seconds since an epoch
    threshold,   \* the gap threshold in seconds
    ends,        \* the local array `ends` after line 168 (0-based indices)
    sample,      \* the returned array of burst ids
    seg_pc,      \* "call" before identify_samples ran, "done" after
    \* ---- despiker (despike) ----
    data,        \* the caller's 2-D array (the ndarray passed to despike)
    data0,       \* history: the values of that array before the first call
    n_std,       \* despike's n_std
    iters,       \* despike's iters
    ret,         \* the array the latest call returned
    bad,         \* the list `bad` the latest call returned
    ret1,        \* history: the values returned by the first call, at return
    bad1,        \* history: `bad` of the first call
    dsp_raised,  \* the latest call raised
    dsp_pc,      \* "call", "once" (after despike(X)), "twice"
    \* ---- frame rotator (rotate) ----
    IN_vec,      \* the 3 x N vector series IN
    ANGLES,      \* the 3 x N Euler angles (phi, theta, psi), in quarter turns
    earth,       \* rotate(IN_vec, ANGLES, 0)
    body,        \* rotate(earth, ANGLES, 1)
    rot_pc,      \* "call", "earth" (after the first rotation), "body"
    \* ---- spectral statistics (wave_spectra_statistics) ----
    p_spectra,   \* the pressure spectrum, one level per band
    wss_ret,     \* what wave_spectra_statistics returned, or that it raised
    wss_pc,      \* "call", "done"
    \* ---- log-band averaging (log_avg, wave_spectra) ----
    la_f,        \* log_avg's f: the frequencies, increasing
    la_s,        \* log_avg's s: the spectrum over f
    la_n,        \* log_avg's n: the number of bands asked for
    la_ret,      \* what log_avg returned, or that it raised
    la_dof,      \* wave_spectra's dof (line 781)
    la_pc,       \* "call", "done"
    \* ---- mean direction (arctan3, wave_spectra lines 804-813) ----
    Cpu,         \* the pressure / east-velocity cross-spectrum, per band
    Cpv,         \* the pressure / north-velocity cross-spectrum
    Cpp,         \* the pressure spectrum (p_spectra), in tenths
    min_spec,    \* params[2], the minimum spectral level, in tenths
    Tdir,        \* the returned directions: not-a-number, or micro-degrees
    dir_pc,      \* "call", "done"
    \* ---- zero-crossing statistics (wave_statistics, zero_crossings) ----
    heave,       \* the vertical displacement series, whole metres
    fs,          \* the sampling frequency in Hz
    npt,         \* the number of points of the fft
    shape,       \* history: the one-period pattern heave repeats
    ws_ret,      \* what wave_statistics(heave, fs, npt) returned
    zc_ret,      \* what zero_crossings(heave, fs) returned
    wst_pc,      \* "call", "stats" (wave_statistics returned), "raised", "zc"
    \* ---- attitude (euler_angles) ----
    accx,        \* accm[0, :], the x accelerations
    gravity,     \* euler_angles' gravity, in the units of accx
    caller,      \* "uvw_xyz" (line 556, no iters passed) or "direct"
    ea_iters,    \* euler_angles' iters
    ea_taps,     \* max(len(ahi), len(bhi)), the filter's coefficients
    ea_theta,    \* theta, the pitch after line 354, in micro-radians
    ea_loop,     \* the loop state: passes done, euler, rates, updater calls
    ea_ret,      \* the returned euler estimate
    eul_pc,      \* "call", "loop" (slow angles done), "done", "raised"
    \* ---- pipeline entry point (calculate_wave_statistics, build_dataset) ----
    ds_time,     \* ds["time"], whole seconds, one entry per row
    ds_deployment,\* ds["deployment"], one entry per row
    cw_n_std,    \* the argument n_std
    cw_fs,       \* the argument fs, in tenths of a hertz
    cw_order,    \* the order buttord gives for fs and f_cutoff (line 134)
    cw_lf_cutoff, \* the argument lf_cutoff, in hundredths of a hertz
    wanted,      \* the gap threshold and despike iters the caller runs with
    ds_sample,   \* ds["sample"] (line 1114)
    todo,        \* the values of np.unique(ds.sample) still to process
    lists,       \* the per-burst result lists (lines 1131-1140)
    calls,       \* history: per burst, the settings of the calls made
    wave_stats,  \* the dataset build_dataset returned
    cw_error,    \* the exception that ended the run
    cws_pc,      \* "call", "loop", "done", "raised"
    \* ---- burst loop arrays (calculate_wave_statistics, uvw_xyz) ----
    Platform,    \* the 3 x n accelerations of the whole dataset
    Deg_rate,    \* the 3 x n angular rates of the whole dataset
    Compass,     \* the n compass headings, in quarter turns
    Platform0,   \* history: Platform before the loop
    Deg_rate0,   \* history: Deg_rate before the loop
    Compass0,    \* history: Compass before the loop
    iso_fs,      \* fs, in tenths of a hertz
    iso_order,   \* the order of the filter of filter_coefficients
    iso_lf_cutoff, \* lf_cutoff, in hundredths of a hertz
    iso_sample,  \* ds.sample, the burst id of every row
    iso_todo,    \* the values of np.unique(ds.sample) still to process
    iso_out,     \* per burst processed, what uvw_xyz worked with
    iso_pc,      \* "loop", "done", "raised"
    \* ---- compass headings (magnetometer) ----
    magx,        \* data.mopak_magx
    magy,        \* data.mopak_magy
    compass,     \* the headings returned, in micro-radians
    mag_pc,      \* "call", "done"
    \* ---- PUV spectra (wave_spectra), two calls ----
    sp_bands,    \* log_avg of the spectra of u, v, p: one record a band
    sp_lf_cutoff,\* params[0], in hundredths of a hertz
    sp_min_spec, \* params[2]
    sp_rest,     \* per call: max_fac, n_dir, hp, hv
    sp_out,      \* per call made: the seven arrays returned
    sp_pc,       \* "calls", "done"
    \* ---- fdchp file loop (fdchp_test.py) ----
    files,       \* per file of glob: does reading, processing succeed
    fl_next,     \* the position in files of the next pass
    raw_data,    \* the file the name is bound to, 0 while unbound
    errors,      \* the files that are keys of errors
    uw,          \* per entry: the pass that added it and the file it is of
    fl_U,        \* U: as uw
    sigH,        \* as uw
    fl_incr,     \* incr, the counter of line 43
    fl_pc        \* "loop", "done"

segVars == <<time, threshold, ends, sample, seg_pc>>
dspVars == <<data, data0, n_std, iters, ret, bad, ret1, bad1, dsp_raised,
    dsp_pc>>
rotVars == <<IN_vec, ANGLES, earth, body, rot_pc>>
wssVars == <<p_spectra, wss_ret, wss_pc>>
lavVars == <<la_f, la_s, la_n, la_ret, la_dof, la_pc>>
dirVars == <<Cpu, Cpv, Cpp, min_spec, Tdir, dir_pc>>
wstVars == <<heave, fs, npt, shape, ws_ret, zc_ret, wst_pc>>
eulVars == <<accx, gravity, caller, ea_iters, ea_taps, ea_theta, ea_loop,
    ea_ret, eul_pc>>
cwsVars == <<ds_time, ds_deployment, cw_n_std, cw_fs, cw_order,
    cw_lf_cutoff, wanted, ds_sample, todo, lists, calls, wave_stats,
    cw_error, cws_pc>>
isoVars == <<Platform, Deg_rate, Compass, Platform0, Deg_rate0, Compass0,
    iso_fs, iso_order, iso_lf_cutoff, iso_sample, iso_todo, iso_out, iso_pc>>
magVars == <<magx, magy, compass, mag_pc>>
spVars == <<sp_bands, sp_lf_cutoff, sp_min_spec, sp_rest, sp_out, sp_pc>>
flVars == <<files, fl_next, raw_data, errors, uw, fl_U, sigH, fl_incr, fl_pc>>

vars == <<segVars, dspVars, rotVars, wssVars, lavVars, dirVars, wstVars,
    eulVars, cwsVars, isoVars, magVars, spVars, flVars>>

(***************************************************************************)
(* Each specification runs one component; the variables of the others      *)
(* stay at rest.                                                           *)
(***************************************************************************)
SegIdle ==
    /\ time = <<>> /\ threshold = 0 /\ ends = <<>> /\ sample = <<>>
    /\ seg_pc = "idle"

DspIdle ==
    /\ data = <<>> /\ data0 = <<>> /\ n_std = 0 /\ iters = 0
    /\ ret = <<>> /\ bad = <<>> /\ ret1 = <<>> /\ bad1 = <<>>
    /\ dsp_raised = FALSE /\ dsp_pc = "idle"

RotIdle ==
    /\ IN_vec = <<>> /\ ANGLES = <<>> /\ earth = <<>> /\ body = <<>>
    /\ rot_pc = "idle"

WssIdle ==
    /\ p_spectra = <<>> /\ wss_ret = <<>> /\ wss_pc = "idle"

LavIdle ==
    /\ la_f = <<>> /\ la_s = <<>> /\ la_n = 0 /\ la_ret = <<>>
    /\ la_dof = <<>> /\ la_pc = "idle"

DirIdle ==
    /\ Cpu = <<>> /\ Cpv = <<>> /\ Cpp = <<>> /\ min_spec = 0
    /\ Tdir = <<>> /\ dir_pc = "idle"

WstIdle ==
    /\ heave = <<>> /\ fs = 0 /\ npt = 0 /\ shape = <<>> /\ ws_ret = <<>>
    /\ zc_ret = <<>> /\ wst_pc = "idle"

EulIdle ==
    /\ accx = <<>> /\ gravity = 0 /\ caller = "none" /\ ea_iters = 0
    /\ ea_taps = 0 /\ ea_theta = <<>> /\ ea_loop = <<>> /\ ea_ret = <<>>
    /\ eul_pc = "idle"

CwsIdle ==
    /\ ds_time = <<>> /\ ds_deployment = <<>> /\ cw_n_std = 0
    /\ cw_fs = 0 /\ cw_order = 0 /\ cw_lf_cutoff = 0 /\ wanted = <<>>
    /\ ds_sample = <<>> /\ todo = <<>> /\ lists = <<>> /\ calls = <<>>
    /\ wave_stats = <<>> /\ cw_error = "none" /\ cws_pc = "idle"

IsoIdle ==
    /\ Platform = <<>> /\ Deg_rate = <<>> /\ Compass = <<>>
    /\ Platform0 = <<>> /\ Deg_rate0 = <<>> /\ Compass0 = <<>>
    /\ iso_fs = 0 /\ iso_order = 0 /\ iso_lf_cutoff = 0
    /\ iso_sample = <<>> /\ iso_todo = <<>> /\ iso_out = <<>>
    /\ iso_pc = "idle"

MagIdle ==
    /\ magx = <<>> /\ magy = <<>> /\ compass = <<>> /\ mag_pc = "idle"

SpIdle ==
    /\ sp_bands = <<>> /\ sp_lf_cutoff = 0 /\ sp_min_spec = 0
    /\ sp_rest = <<>> /\ sp_out = <<>> /\ sp_pc = "idle"

FlIdle ==
    /\ files = <<>> /\ fl_next = 0 /\ raw_data = 0 /\ errors = {}
    /\ uw = <<>> /\ fl_U = <<>> /\ sigH = <<>> /\ fl_incr = 0
    /\ fl_pc = "idle"

\* For each component, the variables of the others and their rest state.
segOthers == <<dspVars, rotVars, wssVars, lavVars, dirVars, wstVars,
    eulVars, cwsVars, isoVars, magVars, spVars, flVars>>
dspOthers == <<segVars, rotVars, wssVars, lavVars, dirVars, wstVars,
    eulVars, cwsVars, isoVars, magVars, spVars, flVars>>
rotOthers == <<segVars, dspVars, wssVars, lavVars, dirVars, wstVars,
    eulVars, cwsVars, isoVars, magVars, spVars, flVars>>
wssOthers == <<segVars, dspVars, rotVars, lavVars, dirVars, wstVars,
    eulVars, cwsVars, isoVars, magVars, spVars, flVars>>
lavOthers == <<segVars, dspVars, rotVars, wssVars, dirVars, wstVars,
    eulVars, cwsVars, isoVars, magVars, spVars, flVars>>
dirOthers == <<segVars, dspVars, rotVars, wssVars, lavVars, wstVars,
    eulVars, cwsVars, isoVars, magVars, spVars, flVars>>
wstOthers == <<segVars, dspVars, rotVars, wssVars, lavVars, dirVars,
    eulVars, cwsVars, isoVars, magVars, spVars, flVars>>
eulOthers == <<segVars, dspVars, rotVars, wssVars, lavVars, dirVars,
    wstVars, cwsVars, isoVars, magVars, spVars, flVars>>
cwsOthers == <<segVars, dspVars, rotVars, wssVars, lavVars, dirVars,
    wstVars, eulVars, isoVars, magVars, spVars, flVars>>
isoOthers == <<segVars, dspVars, rotVars, wssVars, lavVars, dirVars,
    wstVars, eulVars, cwsVars, magVars, spVars, flVars>>
magOthers == <<segVars, dspVars, rotVars, wssVars, lavVars, dirVars,
    wstVars, eulVars, cwsVars, isoVars, spVars, flVars>>
spOthers == <<segVars, dspVars, rotVars, wssVars, lavVars, dirVars, wstVars,
    eulVars, cwsVars, isoVars, magVars, flVars>>
flOthers == <<segVars, dspVars, rotVars, wssVars, lavVars, dirVars, wstVars,
    eulVars, cwsVars, isoVars, magVars, spVars>>
SegOthersIdle == DspIdle /\ RotIdle /\ WssIdle /\ LavIdle /\ DirIdle
    /\ WstIdle /\ EulIdle /\ CwsIdle /\ IsoIdle /\ MagIdle /\ SpIdle
    /\ FlIdle
DspOthersIdle == SegIdle /\ RotIdle /\ WssIdle /\ LavIdle /\ DirIdle
    /\ WstIdle /\ EulIdle /\ CwsIdle /\ IsoIdle /\ MagIdle /\ SpIdle
    /\ FlIdle
RotOthersIdle == SegIdle /\ DspIdle /\ WssIdle /\ LavIdle /\ DirIdle
    /\ WstIdle /\ EulIdle /\ CwsIdle /\ IsoIdle /\ MagIdle /\ SpIdle
    /\ FlIdle
WssOthersIdle == SegIdle /\ DspIdle /\ RotIdle /\ LavIdle /\ DirIdle
    /\ WstIdle /\ EulIdle /\ CwsIdle /\ IsoIdle /\ MagIdle /\ SpIdle
    /\ FlIdle
LavOthersIdle == SegIdle /\ DspIdle /\ RotIdle /\ WssIdle /\ DirIdle
    /\ WstIdle /\ EulIdle /\ CwsIdle /\ IsoIdle /\ MagIdle /\ SpIdle
    /\ FlIdle
DirOthersIdle == SegIdle /\ DspIdle /\ RotIdle /\ WssIdle /\ LavIdle
    /\ WstIdle /\ EulIdle /\ CwsIdle /\ IsoIdle /\ MagIdle /\ SpIdle
    /\ FlIdle
WstOthersIdle == SegIdle /\ DspIdle /\ RotIdle /\ WssIdle /\ LavIdle
    /\ DirIdle /\ EulIdle /\ CwsIdle /\ IsoIdle /\ MagIdle /\ SpIdle
    /\ FlIdle
EulOthersIdle == SegIdle /\ DspIdle /\ RotIdle /\ WssIdle /\ LavIdle
    /\ DirIdle /\ WstIdle /\ CwsIdle /\ IsoIdle /\ MagIdle /\ SpIdle
    /\ FlIdle
CwsOthersIdle == SegIdle /\ DspIdle /\ RotIdle /\ WssIdle /\ LavIdle
    /\ DirIdle /\ WstIdle /\ EulIdle /\ IsoIdle /\ MagIdle /\ SpIdle
    /\ FlIdle
IsoOthersIdle == SegIdle /\ DspIdle /\ RotIdle /\ WssIdle /\ LavIdle
    /\ DirIdle /\ WstIdle /\ EulIdle /\ CwsIdle /\ MagIdle /\ SpIdle
    /\ FlIdle
MagOthersIdle == SegIdle /\ DspIdle /\ RotIdle /\ WssIdle /\ LavIdle
    /\ DirIdle /\ WstIdle /\ EulIdle /\ CwsIdle /\ IsoIdle /\ SpIdle
    /\ FlIdle
SpOthersIdle == SegIdle /\ DspIdle /\ RotIdle /\ WssIdle /\ LavIdle
    /\ DirIdle /\ WstIdle /\ EulIdle /\ CwsIdle /\ IsoIdle /\ MagIdle
    /\ FlIdle
FlOthersIdle == SegIdle /\ DspIdle /\ RotIdle /\ WssIdle /\ LavIdle
    /\ DirIdle /\ WstIdle /\ EulIdle /\ CwsIdle /\ IsoIdle /\ MagIdle
    /\ SpIdle

(***************************************************************************)
(* Generic helpers (numpy idioms).                                         *)
(***************************************************************************)

\* The largest / smallest element of a non-empty finite set of integers.
SetMax(S) == CHOOSE x \in S : \A y \in S : y <= x
SetMin(S) == CHOOSE x \in S : \A y \in S : x <= y

\* The elements of the set S of integers within lo..hi, increasing, by
\* halves of the range.
RECURSIVE SortedIn(_, _, _)
SortedIn(S, lo, hi) ==
    IF lo > hi THEN <<>>
    ELSE IF lo = hi THEN (IF lo \in S THEN <<lo>> ELSE <<>>)
    ELSE SortedIn(S, lo, (lo + hi) \div 2)
         \o SortedIn(S, ((lo + hi) \div 2) + 1, hi)

\* The elements of a finite set of integers in increasing order.
SortedSeq(S) ==
    IF S = {} THEN <<>> ELSE SortedIn(S, SetMin(S), SetMax(S))

\* Sum of the entries lo..hi of a sequence of integers, by halves.
RECURSIVE SumRange(_, _, _)
SumRange(s, lo, hi) ==
    IF lo > hi THEN 0
    ELSE IF lo = hi THEN s[lo]
    ELSE SumRange(s, lo, (lo + hi) \div 2)
         + SumRange(s, ((lo + hi) \div 2) + 1, hi)

\* Sum of a sequence of integers.
SeqSum(s) == SumRange(s, 1, Len(s))

\* All sequences over S of length lo..hi.
SeqsOfLen(S, lo, hi) == UNION {[1..n -> S] : n \in lo..hi}

(***************************************************************************)
(* Burst segmenter: identify_samples (lines 143-182).                      *)
(***************************************************************************)

\* Bound: the longest time series drawn.
MaxSamples == 5

\* Seconds in a day: xarray's `.dt.seconds` is the seconds COMPONENT of a
\* timedelta (0 <= seconds < 86400), the days being a separate component.
SecondsPerDay == 86400

\* Inter-sample gaps the inputs are built from (seconds) and the thresholds
\* tried; 2400 is the threshold the pipeline passes (line 1110).
GapChoices == {1, 2400, 3000, 86400, 89400}
ThresholdChoices == {60, 2400}

\* line 161: ds["time"].diff(dim="time").dt.seconds; entry k (1-based) is
\* the seconds component of time[k+1] - time[k].
dt_seconds(t) == [k \in 1..(Len(t) - 1) |-> (t[k + 1] - t[k]) % SecondsPerDay]

\* lines 164-168: ends = np.where(dt > threshold)[0] + 1, as the sorted
\* sequence of 0-based indices.
gap_ends(t, thr) ==
    LET dt == dt_seconds(t)
    IN  SortedSeq({k \in 1..(Len(t) - 1) : dt[k] > thr})

\* sample[start:end] = v with Python slice semantics (0-based, half-open,
\* end clipped to the length).
SetSlice(s, start, end, v) ==
    [p \in 1..Len(s) |-> IF start <= p - 1 /\ p - 1 < end THEN v ELSE s[p]]

\* lines 172-180: the body of the loop for i = the (0-based) position i of
\* `ends`, and the loop from position i on.
RECURSIVE assign_bursts(_, _, _)
assign_bursts(smp, e, i) ==
    IF i >= Len(e) THEN smp
    ELSE LET end0 == e[i + 1]
             start == IF i = 0 THEN 0 ELSE e[i]
             end == IF i = 0 THEN end0
                    ELSE IF end0 = e[Len(e)] THEN Len(smp) + 1
                    ELSE end0
         IN  assign_bursts(SetSlice(smp, start, end, i), e, i + 1)

\* A plausible slip: the last group is not extended to the end of the array.
identify_samples_no_tail(t, thr) ==
    LET e == gap_ends(t, thr)
        step(smp, i) == SetSlice(smp, IF i = 0 THEN 0 ELSE e[i], e[i + 1], i)
        F[i \in 0..Len(e)] == IF i = 0 THEN [p \in 1..Len(t) |-> 0]
                              ELSE step(F[i - 1], i - 1)
    IN  F[Len(e)]

\* identify_samples(ds, threshold): the returned array `sample`.
identify_samples(t, thr) ==
    assign_bursts([p \in 1..Len(t) |-> 0], gap_ends(t, thr), 0)

\* The time series with first timestamp 0 and the given gaps.
RECURSIVE TimesFrom(_, _)
TimesFrom(t0, gaps) ==
    IF gaps = <<>> THEN <<t0>>
    ELSE <<t0>> \o TimesFrom(t0 + Head(gaps), Tail(gaps))

SegInit ==
    /\ \E gaps \in SeqsOfLen(GapChoices, 0, MaxSamples - 1) :
           time = TimesFrom(0, gaps)
    /\ threshold \in ThresholdChoices
    /\ ends = <<>>
    /\ sample = <<>>
    /\ seg_pc = "call"
    /\ SegOthersIdle

\* sample = identify_samples(ds, threshold)
IdentifySamples ==
    /\ seg_pc = "call"
    /\ ends' = gap_ends(time, threshold)
    /\ sample' = identify_samples(time, threshold)
    /\ seg_pc' = "done"
    /\ UNCHANGED <<time, threshold>>
    /\ UNCHANGED segOthers

SegNext == IdentifySamples

SegSpec == SegInit /\ [][SegNext]_vars

\* ---- properties of the burst segmenter ----

Range(s) == {s[k] : k \in 1..Len(s)}

\* The elapsed whole seconds between samples k and k+1 (1-based).
Elapsed(k) == time[k + 1] - time[k]

\* Samples k and k+1 are separated by an over-threshold gap.
OverGap(k) == Elapsed(k) > threshold

\* C1 (as claimed): two samples i < j receive the same burst id if and only
\* if no consecutive-sample gap between them exceeds the threshold (so one
\* over-threshold gap yields two bursts).  Stated for series whose gaps are
\* all shorter than one day, so that the day wrap of C3 plays no part.
C1_SameIdIffNoGap ==
    (seg_pc = "done" /\ \A k \in 1..(Len(time) - 1) : Elapsed(k) < SecondsPerDay)
    => \A i, j \in 1..Len(time) :
           i < j => ((sample[i] = sample[j])
                     <=> ~(\E k \in i..(j - 1) : OverGap(k)))

\* C2: every sample has one id, ids never decrease along the time axis, the
\* ids in use are exactly 0..m-1 (none skipped, none without a sample), and
\* with no over-threshold gap every sample has id 0.
C2_IdsDenseAndMonotone ==
    seg_pc = "done"
    => /\ Len(sample) = Len(time)
       /\ \A p \in 1..(Len(sample) - 1) : sample[p] <= sample[p + 1]
       /\ Range(sample) = 0..(Cardinality(Range(sample)) - 1)
       /\ (\A k \in 1..(Len(time) - 1) : ~OverGap(k))
              => \A p \in 1..Len(sample) : sample[p] = 0

\* C2 witness: a series with a gap between the first two samples, a gap
\* between the last two samples and one in between, segmented into several
\* bursts.
C2_Witness ==
    /\ seg_pc = "done"
    /\ Len(time) >= 4
    /\ OverGap(1) /\ OverGap(Len(time) - 1)
    /\ \E k \in 2..(Len(time) - 2) : OverGap(k)
    /\ Cardinality(Range(sample)) >= 3
    /\ Elapsed(1) < SecondsPerDay

\* C3 (as claimed): index k is marked as a burst boundary exactly when the
\* elapsed whole seconds between samples k-1 and k exceed the threshold,
\* gaps of a day or longer included.
C3_BoundaryIffElapsedOverThreshold ==
    seg_pc = "done"
    => \A k \in 1..(Len(time) - 1) : (k \in Range(ends)) <=> OverGap(k)

(***************************************************************************)
(* Despiker: despike (lines 562-607).                                      *)
(*                                                                         *)
(* A sample is a record: nan says whether it is missing (np.nan), v is its *)
(* value otherwise.  Sample values are integers, so medians and standard   *)
(* deviations are compared exactly, by cross-multiplication.               *)
(***************************************************************************)

\* Bounds: the longest channel drawn and the largest iters drawn.
MaxN == 4
MaxIters == 2

NaN == [nan |-> TRUE, v |-> 0]
Num(x) == [nan |-> FALSE, v |-> x]

\* The sample values, the n_std values and the array shapes drawn: arrays of
\* one channel, and arrays of two channels of which one (the first or the
\* second) holds a single value and missing samples only.
SampleChoices == {Num(0), Num(1), Num(3), NaN}
CoarseChoices == {Num(0), Num(3), NaN}
SingleValueChoices == {Num(0), NaN}
NStdChoices == {1, 4}
ArrayChoices ==
    {<<r>> : r \in SeqsOfLen(SampleChoices, 1, MaxN)}
    \cup {<<r1, r2>> : r1 \in [1..MaxN -> CoarseChoices],
                       r2 \in [1..MaxN -> SingleValueChoices]}
    \cup {<<r2, r1>> : r1 \in [1..MaxN -> CoarseChoices],
                       r2 \in [1..MaxN -> SingleValueChoices]}

\* The non-missing values of a channel at the places lo..hi, in index
\* order, by halves.
RECURSIVE valid_in(_, _, _)
valid_in(row, lo, hi) ==
    IF lo > hi THEN <<>>
    ELSE IF lo = hi THEN (IF row[lo].nan THEN <<>> ELSE <<row[lo].v>>)
    ELSE valid_in(row, lo, (lo + hi) \div 2)
         \o valid_in(row, ((lo + hi) \div 2) + 1, hi)

\* The non-missing values of a channel, in index order.
valid_values(row) == valid_in(row, 1, Len(row))

\* A sequence of integers sorted increasingly: the entry at place i is the
\* value with fewer than i entries below it and at least i entries not
\* above it.
Sort(s) ==
    [i \in 1..Len(s) |->
        CHOOSE v \in {s[k] : k \in 1..Len(s)} :
            /\ Cardinality({k \in 1..Len(s) : s[k] < v}) < i
            /\ i <= Cardinality({k \in 1..Len(s) : s[k] <= v})]

\* line 592: np.nanmedian of a channel with N >= 1 non-missing values,
\* times 2 (the median of an even count is the mean of the two middle
\* values).
nanmedian2(row) ==
    LET xs == valid_values(row)
        sv == Sort(xs)
        N == Len(xs)
    IN  IF N % 2 = 1 THEN 2 * sv[(N + 1) \div 2]
        ELSE sv[N \div 2] + sv[N \div 2 + 1]

\* line 593: np.nanstd of a channel with N non-missing values, as
\* N^2 * variance = N * sum(x^2) - sum(x)^2.
nanvar_N2(row) ==
    LET xs == valid_values(row)
        N == Len(xs)
        S == SeqSum(xs)
        Q == SeqSum([k \in 1..N |-> xs[k] * xs[k]])
    IN  N * Q - S * S

\* line 596: the 0-based indices of the good samples, increasing.  With
\* a = N*(2x - 2*median) and b = 2*N*n_std*std >= 0:
\*   x < median + n_std*std  iff  a < b   iff  a < 0 or a^2 < b^2
\*   x > median - n_std*std  iff  -a < b  iff  a > 0 or a^2 < b^2
\* A channel with no non-missing value has median and std nan and every
\* comparison false.
good_indices(row, nstd) ==
    LET N == Len(valid_values(row))
        med2 == nanmedian2(row)
        b2 == 4 * nstd * nstd * nanvar_N2(row)
        isgood(j) ==
            /\ ~row[j + 1].nan
            /\ N > 0
            /\ LET a == N * (2 * row[j + 1].v - med2)
               IN  /\ (a < 0 \/ a * a < b2)
                   /\ (a > 0 \/ a * a < b2)
    IN  SortedSeq({j \in 0..(Len(row) - 1) : isgood(j)})

\* A plausible slip: kind="previous" instead of kind="nearest".
interp1d_previous(x, y, tq) ==
    y[SetMax({1} \cup {m \in 1..Len(x) : x[m] <= tq})]

\* line 601: interp1d(x, y, kind="nearest", fill_value="extrapolate")
\* evaluated at tq, for x increasing with at least one entry: scipy takes
\* the position of tq among the midpoints of consecutive x (searchsorted,
\* side="left", so a tie goes to the lower neighbour), clipped to the range
\* of x.
interp1d_nearest(x, y, tq) ==
    y[1 + Cardinality({m \in 1..(Len(x) - 1) : x[m] + x[m + 1] < 2 * tq})]

\* A plausible slip: no `if len(good) > 0` guard, so interp1d is built on an
\* empty set of points and raises ValueError.
despike_pass_unguarded(row, nstd) ==
    LET fill(good) ==
            LET y == [m \in 1..Len(good) |-> row[good[m] + 1]]
            IN  [p \in 1..Len(row) |-> interp1d_nearest(good, y, p - 1)]
        pass(good) ==
            [row |-> IF Len(good) > 0 THEN fill(good) ELSE row,
             n_good |-> Len(good),
             raised |-> Len(good) = 0]
    IN  CHOOSE out \in {pass(g) : g \in {good_indices(row, nstd)}} : TRUE

\* lines 592-602: one pass over a channel.  The result is the channel after
\* the pass and the number of good samples the pass found.  (Writing
\* "g \in {e}" evaluates e once and names its value.)
despike_pass(row, nstd) ==
    LET fill(good) ==
            LET y == [m \in 1..Len(good) |-> row[good[m] + 1]]
            IN  [p \in 1..Len(row) |-> interp1d_nearest(good, y, p - 1)]
        pass(good) ==
            [row |-> IF Len(good) > 0 THEN fill(good) ELSE row,
             n_good |-> Len(good),
             raised |-> FALSE]
    IN  CHOOSE out \in {pass(g) : g \in {good_indices(row, nstd)}} : TRUE

\* lines 590-602: the passes i, i+1, ..., iters-1 over one channel.  n_bad
\* is the local variable of that name: <<>> while it is unbound, <<k>> once
\* it is k.  The result is the channel, n_bad, and whether a pass raised.
RECURSIVE despike_passes(_, _, _, _, _)
despike_passes(row, nstd, its, i, n_bad) ==
    IF i >= its THEN [row |-> row, n_bad |-> n_bad, raised |-> FALSE]
    ELSE LET rest(p) ==
                 IF p.raised
                 THEN [row |-> p.row, n_bad |-> n_bad, raised |-> TRUE]
                 ELSE despike_passes(
                          p.row, nstd, its, i + 1,
                          IF i = 0 THEN <<Len(p.row) - p.n_good>> ELSE n_bad)
         IN  CHOOSE out \in {rest(p) : p \in {despike_pass(row, nstd)}} : TRUE

\* lines 588-605: the loop over the channels from `row` on.  d is the array
\* (written in place), bd the list `bad`.  bad.append(n_bad) raises
\* UnboundLocalError when no pass ever bound n_bad (iters = 0).
RECURSIVE despike_rows(_, _, _, _, _, _)
despike_rows(d, nstd, its, row, n_bad, bd) ==
    IF row >= Len(d) THEN [data |-> d, bad |-> bd, raised |-> FALSE]
    ELSE LET rest(r) ==
                 IF r.raised \/ r.n_bad = <<>>
                 THEN [data |-> [d EXCEPT ![row + 1] = r.row],
                       bad |-> bd, raised |-> TRUE]
                 ELSE despike_rows([d EXCEPT ![row + 1] = r.row], nstd, its,
                                   row + 1, r.n_bad, Append(bd, r.n_bad[1]))
         IN  CHOOSE out \in
                 {rest(r) : r \in {despike_passes(d[row + 1], nstd, its, 0, n_bad)}} :
                 TRUE

\* despike(data, n_std, iters) on a 2-D ndarray: np.atleast_2d (line 581)
\* returns the caller's array itself, so `data` below is also what the
\* caller's array holds when the call ends.
despike(d, nstd, its) == despike_rows(d, nstd, its, 0, <<>>, <<>>)

DspInit ==
    /\ data \in ArrayChoices
    /\ data0 = data
    /\ n_std \in NStdChoices
    /\ iters \in 0..MaxIters
    /\ ret = <<>> /\ bad = <<>> /\ ret1 = <<>> /\ bad1 = <<>>
    /\ dsp_raised = FALSE
    /\ dsp_pc = "call"
    /\ DspOthersIdle

\* D1, b1 = despike(X, n_std, iters)
Despike ==
    /\ dsp_pc = "call"
    /\ \E r \in {despike(data, n_std, iters)} :
           /\ data' = r.data
           /\ dsp_raised' = r.raised
           /\ ret' = IF r.raised THEN <<>> ELSE r.data
           /\ bad' = IF r.raised THEN <<>> ELSE r.bad
           /\ ret1' = ret'
           /\ bad1' = bad'
    /\ dsp_pc' = "once"
    /\ UNCHANGED <<data0, n_std, iters>>
    /\ UNCHANGED dspOthers

\* D2, b2 = despike(D1, n_std, iters): D1 is the array the first call
\* returned, which is the caller's array.
DespikeAgain ==
    /\ dsp_pc = "once"
    /\ ~dsp_raised
    /\ \E r \in {despike(data, n_std, iters)} :
           /\ data' = r.data
           /\ dsp_raised' = r.raised
           /\ ret' = IF r.raised THEN <<>> ELSE r.data
           /\ bad' = IF r.raised THEN <<>> ELSE r.bad
    /\ dsp_pc' = "twice"
    /\ UNCHANGED <<data0, n_std, iters, ret1, bad1>>
    /\ UNCHANGED dspOthers

DspNext == Despike \/ DespikeAgain

DspSpec == DspInit /\ [][DspNext]_vars

\* ---- properties of the despiker ----

\* The channels (1-based) of the array.
Channels == 1..Len(data0)

\* Channel c after k passes, from the input values.
AfterPasses(c, k) == despike_passes(data0[c], n_std, k, 0, <<>>).row

\* The 0-based indices of the good samples of a channel, as a set.
GoodSet(row) == Range(good_indices(row, n_std))

Abs(x) == IF x < 0 THEN -x ELSE x

\* C4 (as claimed): despike(despike(X)) returns the values despike(X)
\* returned, and finds no bad sample on its first pass in any channel.
C4_Idempotent ==
    (dsp_pc = "twice" /\ ~dsp_raised)
    => /\ ret = ret1
       /\ \A c \in 1..Len(bad) : bad[c] = 0

\* C5 (as claimed): after despike(data) returns, the caller's array holds
\* the values it held before the call.
C5_ArgumentUnchanged ==
    (dsp_pc = "once" /\ ~dsp_raised) => data = data0

\* C6: with at least one pass, a channel in which no sample is good on the
\* first pass (flat, or all missing) does not make despike raise, is returned
\* with its input values, and every other channel is returned as despike
\* returns it when it is the only channel.
C6_NoGoodSampleChannel ==
    (dsp_pc = "once" /\ iters >= 1)
    => \A c \in Channels :
           GoodSet(data0[c]) = {}
           => /\ ~dsp_raised
              /\ ret[c] = data0[c]
              /\ bad[c] = Len(data0[c])
              /\ \A o \in Channels \ {c} :
                     /\ ret[o] = despike(<<data0[o]>>, n_std, iters).data[1]
                     /\ bad[o] = despike(<<data0[o]>>, n_std, iters).bad[1]

\* C6 witness: a two-channel array, one channel flat or all missing, the
\* other with a sample that despike replaced.
C6_Witness ==
    /\ dsp_pc = "once" /\ iters >= 1 /\ ~dsp_raised
    /\ \E c, o \in Channels :
           /\ c # o
           /\ GoodSet(data0[c]) = {}
           /\ \/ \A p \in 1..Len(data0[c]) : data0[c][p].nan
              \/ \A p \in 1..Len(data0[c]) : data0[c][p] = data0[c][1] /\ ~data0[c][1].nan
           /\ ret[o] # data0[o]
           /\ \E p \in 1..Len(ret[o]) : ~data0[o][p].nan /\ ret[o][p] # data0[o][p]

\* C7: on every pass on which a channel has a good sample, each good sample
\* keeps its value and each bad sample takes the value of a good sample that
\* no other good sample is nearer to in index (before the first and after
\* the last good sample too); the channel returned then holds no missing
\* value and only values of the input channel.
C7_NearestGoodReplacement ==
    (dsp_pc = "once" /\ ~dsp_raised)
    => \A c \in Channels :
           /\ ret[c] = AfterPasses(c, iters)
           /\ \A k \in 0..(iters - 1) :
                  LET before == AfterPasses(c, k)
                      after == AfterPasses(c, k + 1)
                      G == GoodSet(before)
                  IN  G # {}
                      => \A j \in 0..(Len(before) - 1) :
                             IF j \in G THEN after[j + 1] = before[j + 1]
                             ELSE \E g \in G :
                                      /\ after[j + 1] = before[g + 1]
                                      /\ \A h \in G : Abs(g - j) <= Abs(h - j)
           /\ (iters >= 1 /\ GoodSet(data0[c]) # {})
                  => \A p \in 1..Len(ret[c]) :
                         /\ ~ret[c][p].nan
                         /\ \E q \in 1..Len(data0[c]) : ret[c][p] = data0[c][q]

\* C7 witness: a channel with a bad sample before its first good sample and
\* a bad sample half way between two good samples of different values; both
\* were replaced, the second by its lower neighbour.
C7_Witness ==
    /\ dsp_pc = "once" /\ ~dsp_raised /\ iters >= 1
    /\ \E c \in Channels :
           LET G == GoodSet(data0[c])
           IN  /\ G # {} /\ 0 \notin G
               /\ ret[c][1] = data0[c][SetMin(G) + 1]
               /\ \E j \in 1..(Len(data0[c]) - 2) :
                      /\ j \notin G /\ (j - 1) \in G /\ (j + 1) \in G
                      /\ data0[c][j] # data0[c][j + 2]
                      /\ ret[c][j + 1] = data0[c][j]

(***************************************************************************)
(* Frame rotator: rotate (lines 395-453).                                  *)
(*                                                                         *)
(* Angles are whole numbers of quarter turns (multiples of 90 degrees), for *)
(* which sine and cosine are exactly -1, 0 or 1.                           *)
(***************************************************************************)

\* Bound: the largest magnitude of a vector component in the one-sample
\* series drawn.
MaxVec == 1

\* np.sin and np.cos of q quarter turns.
sin(q) == CASE q % 4 = 0 -> 0 [] q % 4 = 1 -> 1 [] q % 4 = 2 -> 0 [] OTHER -> -1
cos(q) == sin(q + 1)

\* A plausible slip: the sign of the wp term of u is wrong in the IFLAG = 1
\* branch.
rotate_sign_slip(in, angles, IFLAG) ==
    LET N == Len(in[1])
        phi(k) == angles[1][k]
        theta(k) == angles[2][k]
        psi(k) == angles[3][k]
        up(k) == in[1][k]
        vp(k) == in[2][k]
        wp(k) == in[3][k]
    IN  IF IFLAG = 1
        THEN << [k \in 1..N |-> up(k) * cos(theta(k)) * cos(psi(k)) + vp(k) * cos(theta(k)) * sin(psi(k)) + wp(k) * sin(theta(k))],
                [k \in 1..N |-> up(k) * (sin(phi(k)) * sin(theta(k)) * cos(psi(k)) - cos(phi(k)) * sin(psi(k))) + vp(k) * (sin(phi(k)) * sin(theta(k)) * sin(psi(k)) + cos(phi(k)) * cos(psi(k))) + wp(k) * (cos(theta(k)) * sin(phi(k)))],
                [k \in 1..N |-> up(k) * (cos(phi(k)) * sin(theta(k)) * cos(psi(k)) + sin(phi(k)) * sin(psi(k))) + vp(k) * (cos(phi(k)) * sin(theta(k)) * sin(psi(k)) - sin(phi(k)) * cos(psi(k))) + wp(k) * (cos(theta(k)) * cos(phi(k)))] >>
        ELSE << [k \in 1..N |-> up(k) * cos(theta(k)) * cos(psi(k)) + vp(k) * (sin(phi(k)) * sin(theta(k)) * cos(psi(k)) - cos(phi(k)) * sin(psi(k))) + wp(k) * (cos(phi(k)) * sin(theta(k)) * cos(psi(k)) + sin(phi(k)) * sin(psi(k)))],
                [k \in 1..N |-> up(k) * cos(theta(k)) * sin(psi(k)) + vp(k) * (sin(phi(k)) * sin(theta(k)) * sin(psi(k)) + cos(phi(k)) * cos(psi(k))) + wp(k) * (cos(phi(k)) * sin(theta(k)) * sin(psi(k)) - sin(phi(k)) * cos(psi(k)))],
                [k \in 1..N |-> up(k) * (-sin(theta(k))) + vp(k) * (cos(theta(k)) * sin(phi(k))) + wp(k) * (cos(theta(k)) * cos(phi(k)))] >>

\* rotate(IN, ANGLES, IFLAG): lines 430-453, term for term; the three rows
\* of the result are u, v and w.
rotate(in, angles, IFLAG) ==
    LET N == Len(in[1])
        phi(k) == angles[1][k]
        theta(k) == angles[2][k]
        psi(k) == angles[3][k]
        up(k) == in[1][k]
        vp(k) == in[2][k]
        wp(k) == in[3][k]
    IN  IF IFLAG = 1
        THEN << [k \in 1..N |-> up(k) * cos(theta(k)) * cos(psi(k)) + vp(k) * cos(theta(k)) * sin(psi(k)) - wp(k) * sin(theta(k))],
                [k \in 1..N |-> up(k) * (sin(phi(k)) * sin(theta(k)) * cos(psi(k)) - cos(phi(k)) * sin(psi(k))) + vp(k) * (sin(phi(k)) * sin(theta(k)) * sin(psi(k)) + cos(phi(k)) * cos(psi(k))) + wp(k) * (cos(theta(k)) * sin(phi(k)))],
                [k \in 1..N |-> up(k) * (cos(phi(k)) * sin(theta(k)) * cos(psi(k)) + sin(phi(k)) * sin(psi(k))) + vp(k) * (cos(phi(k)) * sin(theta(k)) * sin(psi(k)) - sin(phi(k)) * cos(psi(k))) + wp(k) * (cos(theta(k)) * cos(phi(k)))] >>
        ELSE << [k \in 1..N |-> up(k) * cos(theta(k)) * cos(psi(k)) + vp(k) * (sin(phi(k)) * sin(theta(k)) * cos(psi(k)) - cos(phi(k)) * sin(psi(k))) + wp(k) * (cos(phi(k)) * sin(theta(k)) * cos(psi(k)) + sin(phi(k)) * sin(psi(k)))],
                [k \in 1..N |-> up(k) * cos(theta(k)) * sin(psi(k)) + vp(k) * (sin(phi(k)) * sin(theta(k)) * sin(psi(k)) + cos(phi(k)) * cos(psi(k))) + wp(k) * (cos(phi(k)) * sin(theta(k)) * sin(psi(k)) - sin(phi(k)) * cos(psi(k)))],
                [k \in 1..N |-> up(k) * (-sin(theta(k))) + vp(k) * (cos(theta(k)) * sin(phi(k))) + wp(k) * (cos(theta(k)) * cos(phi(k)))] >>

\* The inputs drawn: every one-sample series with components of magnitude
\* up to MaxVec and angles of 0..3 quarter turns, and the two-sample series
\* of two fixed vectors with every pair of angle triples.
QuarterTurns == 0..3
AngleTriples == [1..3 -> QuarterTurns]
Series(s1, s2) == [r \in 1..3 |-> <<s1[r], s2[r]>>]
RotInputs ==
    {[in |-> [r \in 1..3 |-> <<v[r]>>], angles |-> [r \in 1..3 |-> <<a[r]>>]] :
        v \in [1..3 -> (-MaxVec)..MaxVec], a \in AngleTriples}
    \cup {[in |-> Series(<<1, 2, 3>>, <<-3, 1, 2>>), angles |-> Series(a, b)] :
             a \in AngleTriples, b \in AngleTriples}

RotInit ==
    /\ \E x \in RotInputs : IN_vec = x.in /\ ANGLES = x.angles
    /\ earth = <<>> /\ body = <<>>
    /\ rot_pc = "call"
    /\ RotOthersIdle

\* E = rotate(V, ANGLES, 0): body -> earth
RotateToEarth ==
    /\ rot_pc = "call"
    /\ earth' = rotate(IN_vec, ANGLES, 0)
    /\ rot_pc' = "earth"
    /\ UNCHANGED <<IN_vec, ANGLES, body>>
    /\ UNCHANGED rotOthers

\* B = rotate(E, ANGLES, 1): earth -> body
RotateToBody ==
    /\ rot_pc = "earth"
    /\ body' = rotate(earth, ANGLES, 1)
    /\ rot_pc' = "body"
    /\ UNCHANGED <<IN_vec, ANGLES, earth>>
    /\ UNCHANGED rotOthers

RotNext == RotateToEarth \/ RotateToBody

RotSpec == RotInit /\ [][RotNext]_vars

\* ---- properties of the frame rotator ----

\* C8: rotating body -> earth (IFLAG = 0) and then earth -> body (IFLAG = 1)
\* with the same angles gives back the original vectors, sample by sample.
C8_RotateRoundTrip ==
    rot_pc = "body" => body = IN_vec

\* C8 witness: a two-sample series, each sample with three different
\* non-zero angles, that the first rotation changed in both samples and the
\* second rotation restored.
C8_Witness ==
    /\ rot_pc = "body"
    /\ Len(IN_vec[1]) = 2
    /\ \A k \in 1..2 :
           /\ Cardinality({ANGLES[1][k], ANGLES[2][k], ANGLES[3][k]}) = 3
           /\ 0 \notin {ANGLES[1][k], ANGLES[2][k], ANGLES[3][k]}
           /\ \E r \in 1..3 : earth[r][k] # IN_vec[r][k]
    /\ body = IN_vec

(***************************************************************************)
(* Spectral statistics: wave_spectra_statistics (lines 818-866).           *)
(*                                                                         *)
(* The spectrum p_spectra is drawn; F, dF, Tdir and Ts are arrays of the   *)
(* same length, F increasing, dF one unit per band.  The peak frequency,   *)
(* direction and spread returned are described by the bands they are       *)
(* computed from.                                                          *)
(***************************************************************************)

\* Bounds: the most bands and the highest spectral level drawn.
MaxSpecBands == 4
MaxLevel == 2

\* a[idx] for an index array idx (numpy fancy indexing) on an array of n
\* entries: every index must satisfy -n <= i < n, else IndexError; a
\* negative index i reads entry n + i.
IndexInRange(n, i) == -n <= i /\ i < n
WrapIndex(n, i) == IF i < 0 THEN n + i ELSE i

\* wave_spectra_statistics(u_spectra, p_spectra, Tdir, Ts, F, dF) for a
\* spectrum of at least one band.  Returned: raised (IndexError at line 856
\* or 859); peak, the band (0-based) whose Tdir and Ts are returned; lo and
\* hi, the bands A, F[nP-1] and C, F[nP+1] are read from; Fs_nan, whether
\* the floating-point value of Fs is not-a-number (0/0, or 0 * infinity);
\* m0 = max(cumsum(p_spectra * dF)), of which Hm0 is 4 * sqrt.
wave_spectra_statistics(p) ==
    LET n == Len(p)
        m0 == SetMax({SeqSum(SubSeq(p, 1, k)) : k \in 1..n})
        B == SetMax(Range(p))
        nP == SortedSeq({k \in 0..(n - 1) : p[k + 1] = B})
        below == [k \in 1..Len(nP) |-> nP[k] - 1]
        above == [k \in 1..Len(nP) |-> nP[k] + 1]
        lo == WrapIndex(n, below[1])
        hi == WrapIndex(n, above[1])
        A == p[lo + 1]
        C == p[hi + 1]
        num == -(C - A)
        den == 2 * (A - 2 * B + C)
    IN  IF \E k \in 1..Len(nP) :
               ~IndexInRange(n, below[k]) \/ ~IndexInRange(n, above[k])
        THEN [raised |-> TRUE]
        ELSE [raised |-> FALSE, peak |-> nP[1], lo |-> lo, hi |-> hi,
              Fs_nan |-> (den = 0 /\ (num = 0 \/ lo = hi)),
              m0 |-> m0]

WssInit ==
    /\ p_spectra \in SeqsOfLen(0..MaxLevel, 1, MaxSpecBands)
    /\ wss_ret = <<>>
    /\ wss_pc = "call"
    /\ WssOthersIdle

\* Hm0, Fs, Tdir, Ts = wave_spectra_statistics(...)
WaveSpectraStatistics ==
    /\ wss_pc = "call"
    /\ wss_ret' = wave_spectra_statistics(p_spectra)
    /\ wss_pc' = "done"
    /\ UNCHANGED p_spectra
    /\ UNCHANGED wssOthers

WssNext == WaveSpectraStatistics

WssSpec == WssInit /\ [][WssNext]_vars

\* ---- properties of the spectral statistics ----

\* The maximum of the spectrum is in the first band or in the last band (a
\* spectrum with the same level in every band, zero energy included, has it
\* in both).
PeakAtEdgeOrFlat ==
    LET B == SetMax(Range(p_spectra))
    IN  \/ p_spectra[1] = B
        \/ p_spectra[Len(p_spectra)] = B

\* C9 (as claimed): when the peak is in the first or last band, or the
\* spectrum is flat, the function does not raise and the peak frequency it
\* returns is not-a-number.
C9_DegeneratePeakGivesNaN ==
    (wss_pc = "done" /\ PeakAtEdgeOrFlat)
    => (~wss_ret.raised /\ wss_ret.Fs_nan)

(***************************************************************************)
(* Log-band averaging: log_avg (lines 624-675) and the degrees of freedom  *)
(* wave_spectra derives from it (lines 775-781).                            *)
(*                                                                         *)
(* Frequencies are positive integers (multiples of the resolution 1/Dt).   *)
(***************************************************************************)

\* Bounds: the highest frequency drawn and the most bands asked for.
MaxFreq == 12
MaxBands == 7

RECURSIVE Pow(_, _)
Pow(b, e) == IF e = 0 THEN 1 ELSE b * Pow(b, e - 1)

\* line 658: NDX[i] = 1 + floor((lf[i] - lf[0]) / dlf) for the 0-based index
\* i, with lf = log(f) and dlf = 1.000000001 * (lf[L-1] - lf[0]) / n
\* (line 655).  For an integer j >= 1,
\*     j <= (lf[i] - lf[0]) / dlf
\* iff (f[L-1]/f[0])^(1.000000001 * j) <= (f[i]/f[0])^n
\* iff X * (f[L-1]/f[0])^(j * 1e-9) <= Y,
\*     with X = f[L-1]^j * f[0]^(n-j) and Y = f[i]^n,
\* iff X < Y,
\* the last step for frequencies that are exactly_decided (below).  No
\* j > n qualifies since f[i] <= f[L-1].  With n = 0, dlf is infinite and
\* every NDX[i] is 1.
log_band(f, n, i) ==
    1 + SetMax({0} \cup {j \in 1..n :
                    Pow(f[Len(f)], j) * Pow(f[1], n - j) < Pow(f[i + 1], n)})

\* The floor of line 658 does not hinge on the last digits of the
\* floating-point logarithms: whenever X < Y (as above), Y exceeds X by more
\* than one part in 10^7, while the factor (f[L-1]/f[0])^(j * 1e-9) exceeds 1
\* by less than that for ratios and band counts below a thousand; when
\* X = Y the quotient is short of j by j parts in 10^9.
exactly_decided(f, n) ==
    \A i \in 1..Len(f) : \A j \in 1..n :
        LET X == Pow(f[Len(f)], j) * Pow(f[1], n - j)
            Y == Pow(f[i], n)
        IN  X < Y => X \div (Y - X) < 10000000

\* A plausible slip: the final index appended to AA is one short of len(f)-1.
band_ends_short(f, n) ==
    SortedSeq({i \in 0..(Len(f) - 2) : log_band(f, n, i + 1) > log_band(f, n, i)})
    \o <<Len(f) - 2>>

\* lines 659-660: AA, the 0-based index of the last sample of each band:
\* the indices where NDX steps up, and the final index.
band_ends(f, n) ==
    SortedSeq({i \in 0..(Len(f) - 2) : log_band(f, n, i + 1) > log_band(f, n, i)})
    \o <<Len(f) - 1>>

\* np.cumsum(x)[i] for the 0-based index i.
cumsum(x, i) == SeqSum(SubSeq(x, 1, i + 1))

\* np.concatenate([np.array([first]), np.diff(xAA)]) for xAA = x[AA].
first_and_diff(xAA, first) ==
    [k \in 1..Len(xAA) |-> IF k = 1 THEN first ELSE xAA[k] - xAA[k - 1]]

\* log_avg(f, s, n).  f[9] - f[8] (line 669) raises IndexError for fewer than
\* 10 frequencies.  F and S are quotients of two integer arrays: F = Fsum /
\* count and S = Ssum / count, where count is the divisor of lines 665-666.
log_avg(f, s, n) ==
    LET result(AA) ==
            LET CsAA == [k \in 1..Len(AA) |-> cumsum(s, AA[k])]
                CfAA == [k \in 1..Len(AA) |-> cumsum(f, AA[k])]
                count == first_and_diff(AA, AA[1] + 1)
            IN  [raised |-> FALSE,
                 Fsum |-> first_and_diff(CfAA, CfAA[1]),
                 Ssum |-> first_and_diff(CsAA, CsAA[1]),
                 count |-> count,
                 dF |-> [k \in 1..Len(AA) |-> count[k] * (f[10] - f[9])],
                 Ns |-> <<0>> \o [k \in 1..(Len(AA) - 1) |-> AA[k] + 1],
                 Ne |-> AA]
    IN  IF Len(f) < 10 THEN [raised |-> TRUE]
        ELSE CHOOSE out \in {result(AA) : AA \in {band_ends(f, n)}} : TRUE

\* lines 779-781 of wave_spectra: dof = 2*(Ne-Ns+1), from the Ns and Ne that
\* log_avg returned.
wave_spectra_dof(la) ==
    [k \in 1..Len(la.Ne) |-> 2 * (la.Ne[k] - la.Ns[k] + 1)]

LavInit ==
    /\ \E S \in {T \in SUBSET (1..MaxFreq) : Cardinality(T) >= 9} :
           la_f = SortedSeq(S)
    /\ la_s \in {[i \in 1..Len(la_f) |-> 1], [i \in 1..Len(la_f) |-> i]}
    /\ la_n \in 0..MaxBands
    /\ exactly_decided(la_f, la_n)
    /\ la_ret = <<>>
    /\ la_dof = <<>>
    /\ la_pc = "call"
    /\ LavOthersIdle

\* F, S, dF, Ns, Ne = log_avg(f, s, n), then dof = 2*(Ne-Ns+1)
LogAvg ==
    /\ la_pc = "call"
    /\ \E r \in {log_avg(la_f, la_s, la_n)} :
           /\ la_ret' = r
           /\ la_dof' = IF r.raised THEN <<>> ELSE wave_spectra_dof(r)
    /\ la_pc' = "done"
    /\ UNCHANGED <<la_f, la_s, la_n>>
    /\ UNCHANGED lavOthers

LavNext == LogAvg

LavSpec == LavInit /\ [][LavNext]_vars

\* ---- properties of the log-band averaging ----

\* The 0-based indices of f that band k (1-based) covers.
BandIndices(k) == {i \in 0..(Len(la_f) - 1) : la_ret.Ns[k] <= i /\ i <= la_ret.Ne[k]}

\* C10: when log_avg returns (it raises for fewer than 10 frequencies), the
\* bands [Ns[k], Ne[k]] returned are non-empty, start at index 0,
\* each begins right after the one before and the last ends at len(f)-1, so
\* every index of f is in exactly one band and the band sizes sum to len(f);
\* the divisor of the band averages is the band size, and dof is twice it.
C10_BandsPartitionTheSpectrum ==
    (la_pc = "done" /\ ~la_ret.raised)
    => LET K == Len(la_ret.Ne)
       IN  /\ Len(la_ret.Ns) = K /\ K >= 1
           /\ la_ret.Ns[1] = 0
           /\ la_ret.Ne[K] = Len(la_f) - 1
           /\ \A k \in 1..K : la_ret.Ns[k] <= la_ret.Ne[k]
           /\ \A k \in 1..(K - 1) : la_ret.Ns[k + 1] = la_ret.Ne[k] + 1
           /\ \A i \in 0..(Len(la_f) - 1) :
                  Cardinality({k \in 1..K : i \in BandIndices(k)}) = 1
           /\ SeqSum([k \in 1..K |-> la_ret.Ne[k] - la_ret.Ns[k] + 1]) = Len(la_f)
           /\ \A k \in 1..K :
                  /\ la_ret.count[k] = Cardinality(BandIndices(k))
                  /\ la_dof[k] = 2 * Cardinality(BandIndices(k))

\* C10 witness: a spectrum averaged into several bands of different sizes,
\* the first of a single sample.
C10_Witness ==
    /\ la_pc = "done" /\ ~la_ret.raised
    /\ Len(la_ret.Ne) >= 3
    /\ la_ret.Ne[1] = 0
    /\ \E k \in 1..Len(la_ret.Ne) : la_dof[k] >= 6
    /\ \E k \in 1..Len(la_ret.Ne) : la_dof[k] = 4

\* The frequencies are linearly spaced: a constant step between neighbours.
LinearlySpaced(f) ==
    \A i \in 2..(Len(f) - 1) : f[i + 1] - f[i] = f[i] - f[i - 1]

\* C11 (as claimed): for linearly spaced frequencies, log_avg returns as
\* many bands as were asked for: F, S, dF, Ns and Ne all have length n.
C11_BandCountIsRequested ==
    (la_pc = "done" /\ ~la_ret.raised /\ LinearlySpaced(la_f))
    => /\ Len(la_ret.Ne) = la_n
       /\ Len(la_ret.Ns) = la_n
       /\ Len(la_ret.Fsum) = la_n
       /\ Len(la_ret.Ssum) = la_n
       /\ Len(la_ret.dF) = la_n

(***************************************************************************)
(* Mean direction: arctan3 (lines 610-621) and the direction lines of      *)
(* wave_spectra (lines 804-813).                                           *)
(*                                                                         *)
(* Angles are whole micro-radians, directions whole micro-degrees.         *)
(***************************************************************************)

\* Bound: the most bands drawn.
MaxDirBands == 2

\* 2*np.pi in micro-radians (6.283185307...), and the factor 57.296 of line
\* 805 in thousandths.
two_pi == 6283185
deg_per_rad == 57296

\* np.arctan2(y, x) in micro-radians, for the pairs it is needed for: a zero
\* component, components of equal size, or a small ratio |y| / x (at most
\* 1/1000, where arctan(t) is t to within a thousandth of a micro-radian),
\* rounded to the nearest micro-radian.
arctan2(y, x) ==
    CASE y = 0 /\ x >= 0 -> 0
      [] y = 0 /\ x < 0 -> two_pi \div 2
      [] x = 0 /\ y > 0 -> two_pi \div 4
      [] x = 0 /\ y < 0 -> -(two_pi \div 4)
      [] y = x /\ x > 0 -> two_pi \div 8
      [] y = -x /\ x > 0 -> -(two_pi \div 8)
      [] y = -x /\ x < 0 -> (3 * two_pi) \div 8
      [] y = x /\ x < 0 -> -((3 * two_pi) \div 8)
      [] x > 0 /\ y # 0 /\ 1000 * y <= x /\ -1000 * y <= x
             -> (2 * 1000000 * y + x) \div (2 * x)

\* The pairs (y, x) drawn: the eight compass points and the origin, and pairs
\* a little off the positive x axis.
PairChoices ==
    ({-1, 0, 1} \X {-1, 0, 1})
    \cup {<<-1, 100000>>, <<-3, 100000>>, <<-1, 10000>>, <<1, 100000>>}

\* arctan3(y, x) for one element: a negative angle gets 2*pi added.
arctan3(y, x) ==
    LET theta == arctan2(y, x)
    IN  IF theta < 0 THEN theta + two_pi ELSE theta

\* 57.296 * theta in micro-degrees (rounded down), theta in micro-radians.
scale_to_degrees(theta) ==
    deg_per_rad * (theta \div 1000) + (deg_per_rad * (theta % 1000)) \div 1000

\* lines 805 and 811-813 of wave_spectra: Tdir = 57.296*arctan3(Cpu, Cpv),
\* then not-a-number where p_spectra < min_spec.
wave_spectra_Tdir(cpu, cpv, cpp, minspec) ==
    [k \in 1..Len(cpu) |->
        IF cpp[k] < minspec THEN NaN
        ELSE Num(scale_to_degrees(arctan3(cpu[k], cpv[k])))]

DirInit ==
    /\ \E n \in 1..MaxDirBands :
           /\ \E pairs \in [1..n -> PairChoices] :
                  /\ Cpu = [k \in 1..n |-> pairs[k][1]]
                  /\ Cpv = [k \in 1..n |-> pairs[k][2]]
           /\ Cpp \in [1..n -> 0..2]
    /\ min_spec \in {1, 2}
    /\ Tdir = <<>>
    /\ dir_pc = "call"
    /\ DirOthersIdle

\* Tdir = 57.296*arctan3(Cpu, Cpv); Tdir[ad] = np.nan
WaveSpectraTdir ==
    /\ dir_pc = "call"
    /\ Tdir' = wave_spectra_Tdir(Cpu, Cpv, Cpp, min_spec)
    /\ dir_pc' = "done"
    /\ UNCHANGED <<Cpu, Cpv, Cpp, min_spec>>
    /\ UNCHANGED dirOthers

DirNext == WaveSpectraTdir

DirSpec == DirInit /\ [][DirNext]_vars

\* ---- properties of the mean direction ----

\* 360 degrees in micro-degrees.
FullCircle == 360 * 1000000

\* C12 (as claimed): the direction of every band that is not nulled is at
\* least 0 and less than 360 degrees.
C12_DirectionInRange ==
    dir_pc = "done"
    => \A k \in 1..Len(Tdir) :
           ~Tdir[k].nan => (0 <= Tdir[k].v /\ Tdir[k].v < FullCircle)

(***************************************************************************)
(* Zero-crossing statistics: wave_statistics (lines 185-233) and           *)
(* zero_crossings (lines 236-265).                                         *)
(*                                                                         *)
(* The displacement is a whole number of metres per sample.  Quotients are *)
(* kept as pairs <<numerator, denominator>>; a zero denominator is the      *)
(* division by zero of the source (infinity or ZeroDivisionError,          *)
(* depending on the type of fs).                                            *)
(***************************************************************************)

\* Bounds: the fewest and the most whole periods in a series, and the
\* largest scale factor of a pattern.
MinPeriods == 10
MaxPeriods == 11
MaxScale == 2

\* np.sign
sign(x) == IF x > 0 THEN 1 ELSE IF x < 0 THEN -1 ELSE 0

\* scipy.signal.detrend(heave) (linear least squares), times the positive
\* factor D = n*(n^2-1): with U = 2*sum(k*x[k]) - (n-1)*sum(x) the fitted
\* slope is 6*U/D and the residual at the 0-based index k is
\*     x[k] - sum(x)/n - 3*U*(2*k - (n-1))/D.
detrend_scaled(x) ==
    LET n == Len(x)
        Sx == SeqSum(x)
        U == 2 * SeqSum([k \in 1..n |-> (k - 1) * x[k]]) - (n - 1) * Sx
        D == n * (n * n - 1)
    IN  [k \in 1..n |-> D * x[k] - (n * n - 1) * Sx - 3 * U * (2 * (k - 1) - (n - 1))]

\* A quotient in lowest terms.
RECURSIVE GCD(_, _)
GCD(a, b) == IF b = 0 THEN a ELSE GCD(b, a % b)
Reduce(q) ==
    LET g == GCD(Abs(q[1]), Abs(q[2]))
    IN  IF g = 0 THEN q ELSE <<q[1] \div g, q[2] \div g>>

\* np.std(detrend(heave))**2 as a quotient: the residual sum of squares is
\* (D*sum(x^2) - (n^2-1)*sum(x)^2 - 3*U^2) / D and the variance is that
\* over n.
detrended_variance(x) ==
    LET n == Len(x)
        Sx == SeqSum(x)
        Sxx == SeqSum([k \in 1..n |-> x[k] * x[k]])
        U == 2 * SeqSum([k \in 1..n |-> (k - 1) * x[k]]) - (n - 1) * Sx
        D == n * (n * n - 1)
    IN  Reduce(<<D * Sxx - (n * n - 1) * Sx * Sx - 3 * U * U, n * D>>)

\* zero_crossings(heave, fs): sheave = sign(heave - mean(heave)), of the
\* same sign as n*heave[k] - sum(heave); i = the places where neighbours
\* differ; T = (n-1)/fs, fm = len(i)/2/T and tm = 1/fm = 2*(n-1)/(fs*len(i)).
zero_crossings(x, f) ==
    LET n == Len(x)
        Sx == SeqSum(x)
        sheave == [k \in 1..n |-> sign(n * x[k] - Sx)]
        i == {k \in 1..(n - 1) : sheave[k] # sheave[k + 1]}
    IN  [count |-> Cardinality(i), tm |-> <<2 * (n - 1), f * Cardinality(i)>>]

\* The exception wave_statistics ends in for a series of n samples and
\* n_fft points of the fft, "none" when it returns: detrend (line 211)
\* raises ValueError for no sample; when Hsig > 0.2 (high), welch (line 220)
\* raises ValueError for a window hann(n_fft) longer than the series or
\* empty, wxx[1] (line 221) needs two of the n_fft//2 + 1 spectral values
\* and filtfilt (line 222, five coefficients) more than 15.
wave_statistics_raises(n, n_fft, high) ==
    LET m == (n_fft \div 2) + 1
    IN  IF n = 0 THEN "ValueError"
        ELSE IF ~high THEN "none"
        ELSE IF n_fft > n \/ n_fft < 1 THEN "ValueError"
        ELSE IF m < 2 THEN "IndexError"
        ELSE IF m <= 15 THEN "ValueError"
        ELSE "none"

\* wave_statistics(heave, fs, npt): Hsig = 4*std of the detrended series,
\* given by its square Hsig2 = 16 * variance; when Hsig > 0.2 (Hsig2 > 1/25)
\* the spectrum is estimated and filtered, which may raise, and the
\* average period is zero_crossings of the detrended series, else
\* Tsig and Tavg are not-a-number.  Havg, the mean of the detrended series,
\* is zero; Tsig, the period of the peak of the Welch spectrum, is
\* represented only by whether it is not-a-number.
wave_statistics(x, f, n_fft) ==
    LET var == detrended_variance(x)
        Hsig2 == Reduce(<<16 * var[1], var[2]>>)
        high == 25 * Hsig2[1] > Hsig2[2]
        error == wave_statistics_raises(Len(x), n_fft, high)
    IN  IF error # "none" THEN [error |-> error]
        ELSE IF high
        THEN [error |-> "none", Hsig2 |-> Hsig2, Tsig_nan |-> FALSE,
              Tavg |-> zero_crossings(detrend_scaled(x), f)]
        ELSE [error |-> "none", Hsig2 |-> Hsig2, Tsig_nan |-> TRUE,
              Tavg |-> NaN]

\* One period of a zero-mean displacement, and the square of its amplitude
\* as a quotient when the pattern is a sampled sinusoid (else amp2 is
\* <<0, 1>>): sin at 0, 90, .. degrees; sqrt(2)*sin at 45, 135, ..;
\* 2*sin at 30, 90, ..; (2/sqrt(3))*sin at 0, 60, ..; two eight-sample
\* waves that are not sinusoids; and still water.
ShapeChoices ==
    { [pat |-> <<0, 1, 0, -1>>, amp2 |-> <<1, 1>>],
      [pat |-> <<1, 0, -1, 0>>, amp2 |-> <<1, 1>>],
      [pat |-> <<1, 1, -1, -1>>, amp2 |-> <<2, 1>>],
      [pat |-> <<1, 2, 1, -1, -2, -1>>, amp2 |-> <<4, 1>>],
      [pat |-> <<0, 1, 1, 0, -1, -1>>, amp2 |-> <<4, 3>>],
      [pat |-> <<0, 1, 1, 1, 0, -1, -1, -1>>, amp2 |-> <<0, 1>>],
      [pat |-> <<1, 1, 1, 1, -1, -1, -1, -1>>, amp2 |-> <<0, 1>>],
      [pat |-> <<0, 0, 0, 0>>, amp2 |-> <<0, 1>>] }

\* m whole periods of the pattern, every sample times c.
Periodic(pat, m, c) ==
    [k \in 1..(m * Len(pat)) |-> c * pat[((k - 1) % Len(pat)) + 1]]

\* A number of fft points too small for the filter of line 222.
short_fft == 8

\* npt is the length of the series (line 1179, below 2**13 samples), or
\* one too small for the filter, or one more than the series has, or none.
WstInit ==
    /\ \E sh \in ShapeChoices, m \in MinPeriods..MaxPeriods, c \in 1..MaxScale :
           /\ shape = [pat |-> [k \in 1..Len(sh.pat) |-> c * sh.pat[k]],
                       amp2 |-> <<c * c * sh.amp2[1], sh.amp2[2]>>]
           /\ heave = Periodic(sh.pat, m, c)
    /\ fs \in {1, 2, 10}
    /\ npt \in {Len(heave), short_fft, Len(heave) + 1, 0}
    /\ ws_ret = <<>>
    /\ zc_ret = <<>>
    /\ wst_pc = "call"
    /\ WstOthersIdle

\* Hsig, Havg, Tsig, Tavg = wave_statistics(heave, fs, npt), or the
\* exception it ends in.
WaveStatistics ==
    /\ wst_pc = "call"
    /\ \E r \in {wave_statistics(heave, fs, npt)} :
           IF r.error = "none"
           THEN ws_ret' = r /\ wst_pc' = "stats"
           ELSE ws_ret' = ws_ret /\ wst_pc' = "raised"
    /\ UNCHANGED <<heave, fs, npt, shape, zc_ret>>
    /\ UNCHANGED wstOthers

\* tm = zero_crossings(heave, fs)
ZeroCrossings ==
    /\ wst_pc \in {"call", "stats"}
    /\ \E r \in {zero_crossings(heave, fs)} : zc_ret' = r
    /\ wst_pc' = "zc"
    /\ UNCHANGED <<heave, fs, npt, shape, ws_ret>>
    /\ UNCHANGED wstOthers

WstNext == WaveStatistics \/ ZeroCrossings

WstSpec == WstInit /\ [][WstNext]_vars

\* ---- properties of the zero-crossing statistics ----

\* heave is a sampled sinusoid, of squared amplitude shape.amp2.
IsSinusoid == shape.amp2[1] > 0

\* C13 (as claimed): for a sinusoid of amplitude A over whole periods,
\* Hsig^2 is within 5 percent of 4*A^2; with Hsig^2 = h1/h2 and
\* A^2 = a1/a2: |h1*a2 - 4*a1*h2| <= 4*a1*h2 / 20.
C13_SinusoidHeightIsTwiceAmplitude ==
    (wst_pc = "stats" /\ IsSinusoid)
    => LET h1 == ws_ret.Hsig2[1]
           h2 == ws_ret.Hsig2[2]
           a1 == shape.amp2[1]
           a2 == shape.amp2[2]
           d == h1 * a2 - 4 * a1 * h2
       IN  Abs(d) <= (4 * a1 * h2) \div 20

\* C14 (as claimed): for a periodic series of P samples per period over
\* whole periods, the average period tm = t1/t2 is within 5 percent of P/fs:
\* |t1*fs - P*t2| <= P*t2 / 20.
C14_PeriodIsSeriesPeriod ==
    (wst_pc = "zc" /\ \E k \in 1..Len(heave) : heave[k] # 0)
    => LET t1 == zc_ret.tm[1]
           t2 == zc_ret.tm[2]
           P == Len(shape.pat)
       IN  Abs(t1 * fs - P * t2) <= (P * t2) \div 20

(***************************************************************************)
(* Attitude: euler_angles (lines 303-392), as uvw_xyz calls it (line 556)  *)
(* or with iters given.                                                    *)
(*                                                                         *)
(* The pitch before filtering is computed in micro-radians.  The filtered  *)
(* and integrated series are terms, not numbers: the angle estimates are   *)
(* numbered (0 is the slow angles, k the estimate of pass k) and a rate    *)
(* series is described by the updater call that produced it.               *)
(***************************************************************************)

\* Bounds: the longest acceleration series, the largest acceleration and
\* the most passes asked for.
MaxAccLen == 10
MaxAcc == 8
MaxEulerIters == 6

\* The default of the parameter iters (line 303).
euler_angles_iters == 5

\* np.arcsin(n/d) in micro-radians for the quotients met: multiples of a
\* quarter of size below one.
arcsin(n, d) ==
    LET q == (4 * Abs(n)) \div d
        a == CASE q = 0 -> 0
               [] q = 1 -> 252680
               [] q = 2 -> 523599
               [] q = 3 -> 848062
    IN  IF n < 0 THEN -a ELSE a

\* lines 349-354 for one sample: theta = np.minimum(-a/g, 1), replaced by
\* arcsin(-a/g) where abs(a) < g.
pitch(a, g) ==
    IF Abs(a) < g THEN arcsin(-a, g)
    ELSE IF -a >= g THEN 1000000
    ELSE (-a * 1000000) \div g

\* A plausible slip: the updater of a pass is given the angles of the pass
\* before.
euler_pass_stale(st) ==
    [i |-> st.i + 1,
     euler |-> [gen |-> st.i + 1, integrated |-> st.rates],
     rates |-> [IN |-> "ratem", ANGLES |-> st.euler.gen, demeaned |-> TRUE],
     calls |-> Append(st.calls, [IN |-> "ratem", ANGLES |-> st.euler.gen])]

\* lines 383-390, one pass of the loop: the new estimate is the slow angles
\* plus the filtered integral of the current rates, then
\* rates = updater(ratem, euler) with the mean of each row removed.
euler_pass(st) ==
    [i |-> st.i + 1,
     euler |-> [gen |-> st.i + 1, integrated |-> st.rates],
     rates |-> [IN |-> "ratem", ANGLES |-> st.i + 1, demeaned |-> TRUE],
     calls |-> Append(st.calls, [IN |-> "ratem", ANGLES |-> st.i + 1])]

\* lines 377-378: euler = the slow angles, rates = updater(ratem, euler).
euler_first_guess ==
    [i |-> 0,
     euler |-> [gen |-> 0, integrated |-> <<>>],
     rates |-> [IN |-> "ratem", ANGLES |-> 0, demeaned |-> FALSE],
     calls |-> <<[IN |-> "ratem", ANGLES |-> 0]>>]

\* filtfilt(bhi, ahi, x) (lines 357, 369, 372) raises ValueError unless x
\* has more samples than padlen = 3 * max(len(ahi), len(bhi)), and for a
\* filter of one coefficient each (it has no initial state).
filtfilt_error(n, taps) ==
    IF taps < 2 \/ n <= 3 * taps THEN "ValueError" ELSE "none"

\* A series of n accelerations: `first`, then `rest` throughout.
AccSeries(n, first, rest) == [k \in 1..n |-> IF k = 1 THEN first ELSE rest]

\* From uvw_xyz the filter is the Butterworth filter of
\* filter_coefficients, of order 2 or 4 here (3 or 5 coefficients); a direct
\* call may pass a shorter one, of 1 or 2 coefficients.
EulInit ==
    /\ \E n \in 1..MaxAccLen, a \in -MaxAcc..MaxAcc :
           accx \in {AccSeries(n, a, 0), AccSeries(n, a, a)}
    /\ gravity \in {2, 4}
    /\ \/ caller = "uvw_xyz" /\ ea_iters = euler_angles_iters /\ ea_taps \in {3, 5}
       \/ caller = "direct" /\ ea_iters \in 0..MaxEulerIters /\ ea_taps \in {1, 2}
    /\ ea_theta = <<>>
    /\ ea_loop = <<>>
    /\ ea_ret = <<>>
    /\ eul_pc = "call"
    /\ EulOthersIdle

\* lines 337-378: the pitch, then the slow angles and the first guess; the
\* ValueError of filtfilt at line 357 ends the call.
EulerSlowAngles ==
    /\ eul_pc = "call"
    /\ ea_theta' = [k \in 1..Len(accx) |-> pitch(accx[k], gravity)]
    /\ IF filtfilt_error(Len(accx), ea_taps) = "none"
       THEN /\ ea_loop' = euler_first_guess
            /\ eul_pc' = "loop"
       ELSE /\ ea_loop' = ea_loop
            /\ eul_pc' = "raised"
    /\ UNCHANGED <<accx, gravity, caller, ea_iters, ea_taps, ea_ret>>
    /\ UNCHANGED eulOthers

\* for i in np.arange(0, iters): one pass.
EulerPass ==
    /\ eul_pc = "loop"
    /\ ea_loop.i < ea_iters
    /\ ea_loop' = euler_pass(ea_loop)
    /\ UNCHANGED <<accx, gravity, caller, ea_iters, ea_taps, ea_theta, ea_ret,
                   eul_pc>>
    /\ UNCHANGED eulOthers

\* return euler, ratem
EulerReturn ==
    /\ eul_pc = "loop"
    /\ ea_loop.i >= ea_iters
    /\ ea_ret' = ea_loop.euler
    /\ eul_pc' = "done"
    /\ UNCHANGED <<accx, gravity, caller, ea_iters, ea_taps, ea_theta, ea_loop>>
    /\ UNCHANGED eulOthers

EulNext == EulerSlowAngles \/ EulerPass \/ EulerReturn

EulSpec == EulInit /\ [][EulNext]_vars

\* The same, with the call running on: a step that can be taken is taken.
EulFairSpec == EulSpec /\ WF_vars(EulNext)

\* ---- properties of the attitude estimate ----

\* At return: exactly iters passes were run; the updater was called
\* iters + 1 times, always on ratem (the detrended rates) and call j with
\* the estimate numbered j - 1, the latest at that point; the estimate
\* returned is that of the last pass; called from uvw_xyz, the passes are 5.
\* A call ends without return only before the loop, for a series no longer
\* than the padding of filtfilt or a filter of one coefficient.
PassesAreIters ==
    /\ eul_pc = "done"
       => /\ ea_loop.i = ea_iters
          /\ ea_ret.gen = ea_iters
          /\ Len(ea_loop.calls) = ea_iters + 1
          /\ \A j \in 1..Len(ea_loop.calls) :
                 /\ ea_loop.calls[j].IN = "ratem"
                 /\ ea_loop.calls[j].ANGLES = j - 1
          /\ (caller = "uvw_xyz" => ea_loop.i = 5)
    /\ eul_pc = "raised"
       => (ea_taps < 2 \/ Len(accx) <= 3 * ea_taps) /\ ea_loop = <<>>

\* C16: for every input and every iters >= 0, the loop of euler_angles,
\* once reached, is never left early and the call returns, after exactly
\* iters passes and iters + 1 calls of the updater, each on the detrended
\* rates with the latest estimate; from uvw_xyz the passes are 5.  Every
\* call ends: it returns, or filtfilt raises before the loop (a series no
\* longer than the padding, or a filter of one coefficient).
C16_PassesAreIters ==
    /\ []PassesAreIters
    /\ (eul_pc = "loop") ~> (eul_pc = "done")
    /\ <>(eul_pc \in {"done", "raised"})

\* C16 witness: a call from uvw_xyz that returned, and so ran passes.
C16_Witness ==
    /\ eul_pc = "done"
    /\ caller = "uvw_xyz"
    /\ ea_loop.i = 5
    /\ Len(ea_loop.calls) = 6

\* One quarter turn, pi/2, in micro-radians.
half_pi == two_pi \div 4

\* C20 (as claimed): the pitch before filtering is within [-pi/2, pi/2]
\* for every acceleration and gravity.
C20_PitchInRange ==
    eul_pc # "call" /\ eul_pc # "idle"
    => \A k \in 1..Len(ea_theta) : -half_pi <= ea_theta[k] /\ ea_theta[k] <= half_pi

(***************************************************************************)
(* Pipeline entry point: calculate_wave_statistics (lines 1101-1210),      *)
(* with uvw_xyz (lines 503-559) and build_dataset (lines 1003-1098).       *)
(*                                                                         *)
(* A burst is followed through the calls made for it: which settings each  *)
(* call is given, how many samples reach it, and whether it raises.  The   *)
(* statistics themselves are named, not computed: the value a list holds   *)
(* for a burst is the statistic's name and the burst's id.                 *)
(***************************************************************************)

\* Bound: the most bursts recorded in a dataset.
MaxBursts == 3

\* The samples of a recorded burst, the seconds between two samples, and
\* the seconds between the last sample of a burst and the first of the next.
LenChoices == {10, 28, 40}
SampleStep == 10
BurstGap == 3000

\* The threshold calculate_wave_statistics passes to identify_samples
\* (line 1111), the defaults of despike (line 562) and the factor of the
\* edge (line 1146).
pipeline_threshold == 2400
despike_n_std == 4
despike_iters == 3
edge_seconds == 30

\* ATTRS (lines 13-101): per variable, the attribute keys and values.  The
\* comments are shortened to their first words.
ATTRS ==
    [significant_wave_height |->
         ("long_name" :> "Significant Wave Height"
          @@ "standard_name" :> "sea_surface_wave_significant_height"
          @@ "units" :> "m" @@ "type" :> "zero-crossing"
          @@ "comment" :> "Wave height is defined as"),
     peak_wave_period |->
         ("long_name" :> "Peak Wave Period"
          @@ "standard_name" :> "sea_surface_wave_period_at_variance_spectral_density_maximum"
          @@ "units" :> "s" @@ "type" :> "zero-crossing"
          @@ "comment" :> "Wave period is the interval"),
     mean_wave_height |->
         ("long_name" :> "Mean wave height"
          @@ "standard_name" :> "sea_surface_wave_mean_height"
          @@ "units" :> "m" @@ "type" :> "zero-crossing"
          @@ "comment" :> "Wave height is defined as"),
     mean_wave_period |->
         ("long_name" :> "Mean Wave Period"
          @@ "standard_name" :> "sea_surface_wave_mean_period"
          @@ "units" :> "s" @@ "type" :> "zero-crossing"
          @@ "comment" :> "Wave period is the interval"),
     peak_wave_direction |->
         ("long_name" :> "Peak Wave Direction"
          @@ "standard_name" :> "sea_surface_wave_from_direction_at_variance_spectral_density_maximum"
          @@ "units" :> "degrees" @@ "type" :> "directional"
          @@ "comment" :> "Peak wave direction is the direction"),
     peak_wave_spread |->
         ("long name" :> "Peak Wave Spread"
          @@ "standard_name" :> "sea_surface_wave_from_direction_at_variance_spectral_density_maximum"
          @@ "units" :> "degrees" @@ "type" :> "directional"
          @@ "comment" :> "Peak wave spread is the directional spread"),
     peak_wave_period_puv |->
         ("long_name" :> "Peak Wave Period"
          @@ "standard_name" :> "sea_surface_wave_period_at_variance_spectral_density_maximum"
          @@ "units" :> "s" @@ "type" :> "directional"
          @@ "comment" :> "Wave period is the interval"),
     wave_height_hm0 |->
         ("long_name" :> "Significant Wave Height from Spectral Moment 0"
          @@ "standard_name" :> "sea_surface_wave_significant_height_from_variance_spectral_density"
          @@ "units" :> "m" @@ "type" :> "directional"
          @@ "comment" :> "Wave height is defined as"),
     time |->
         ("long_name" :> "time" @@ "standard_name" :> "time"
          @@ "comment" :> "The time given here is the start time"),
     deployment |->
         ("long_name" :> "Deployment Number"
          @@ "comment" :> "The deployment number of the instrument.")]

\* np.unique(x): the values of x in increasing order.
unique(x) == SortedSeq({x[k] : k \in 1..Len(x)})

\* np.where(x == v)[0]: the 0-based indices where x is v, increasing.
where_equal(x, v) == SortedSeq({k - 1 : k \in {j \in 1..Len(x) : x[j] = v}})

\* uvw_xyz (lines 536-557) for a burst of n samples: the four despike calls
\* take the defaults of despike, euler_angles the default of iters; filtfilt
\* raises ValueError unless n exceeds padlen = 3 * (order + 1), the filter
\* having order + 1 coefficients.
uvw_xyz(n, order) ==
    [despike |-> [c \in {"platform", "angular_rates", "gx", "gy"} |->
                     [n_std |-> despike_n_std, iters |-> despike_iters]],
     euler_iters |-> euler_angles_iters,
     error |-> IF n <= 3 * (order + 1) THEN "ValueError" ELSE "none"]

\* lines 1146 and 1172-1175: edge = np.fix(1 * 30 * fs) and
\* incr = np.arange(edge, n - edge + 1), the 0-based indices kept.
edge_of(fs_tenths) == (edge_seconds * fs_tenths) \div 10
incr_of(n, edge) == [k \in 1..(n - 2 * edge + 1) |-> edge + k - 1]

\* wave_statistics (lines 185-233) on a window of w samples with
\* npt = np.min([2**13, len(incr)]) (line 1179).
wave_statistics_error(w, high) ==
    wave_statistics_raises(w, IF w < 8192 THEN w ELSE 8192, high)

\* wave_spectra (lines 736-781) on a window of w samples: n is w made even,
\* fft raises ValueError for no sample, and log_avg raises IndexError
\* (line 669) for fewer than 10 frequencies, n/2 of them being passed.
wave_spectra_error(w) ==
    LET n == w - (w % 2)
    IN  IF n = 0 THEN "ValueError"
        ELSE IF n \div 2 < 10 THEN "IndexError"
        ELSE "none"

\* line 784, aa = np.where(F > lf_cutoff)[0], keeps no band: the centres F
\* are means of frequencies up to the Nyquist frequency fs/2 (line 748 with
\* dt = 1/fs, line 1187), so none exceeds fs/2; and the last of the 100 bands
\* asked for (line 1187) holds only frequencies above fs/2 * L^(-1/100) for
\* L frequencies, which for a window of fewer than 2000 samples is within
\* a hundredth of a hertz of fs/2.  With fs in tenths and lf_cutoff in
\* hundredths of a hertz, no band is kept exactly when lf_cutoff >= fs/2.
no_band_kept(fs_tenths, lf_cutoff) == lf_cutoff >= 5 * fs_tenths

\* wave_spectra_statistics (lines 849-864) on what wave_spectra returned:
\* np.max of an empty array (line 849) raises ValueError when no band was
\* kept; edge_peak: the peak of the pressure spectrum is in the first or
\* last band kept (lines 855-856 then raise IndexError or read across the
\* ends).
wave_spectra_statistics_error(fs_tenths, lf_cutoff, edge_peak) ==
    IF no_band_kept(fs_tenths, lf_cutoff) THEN "ValueError"
    ELSE IF edge_peak THEN "IndexError"
    ELSE "none"

\* The first error in a sequence of outcomes, "none" if there is none.
first_error(outcomes) ==
    LET bad_at == {k \in 1..Len(outcomes) : outcomes[k] # "none"}
    IN  IF bad_at = {} THEN "none" ELSE outcomes[SetMin(bad_at)]

\* One pass of the loop of lines 1148-1199 for the burst id `smp`: the calls
\* made, what each is given, and the error that ends the pass, if any.
\* high: Hsig > 0.2 for the burst; edge_peak: the peak of its pressure
\* spectrum is in the first or last band kept.
process_burst(smp, tm, smpl, fs_tenths, order, lf_cutoff, high, edge_peak) ==
    LET index == where_equal(smpl, smp)
        n == Len(index)
        tstart == SetMin({tm[index[k] + 1] : k \in 1..n})
        uvw == uvw_xyz(n, order)
        edge == edge_of(fs_tenths)
        incr == incr_of(n, edge)
        w == Len(incr)
    IN  [sample |-> smp, index |-> index, tstart |-> tstart,
         identify_threshold |-> pipeline_threshold,
         despike |-> uvw.despike, euler_iters |-> uvw.euler_iters,
         incr |-> incr,
         error |-> first_error(<<uvw.error,
                                 wave_statistics_error(w, high),
                                 wave_spectra_error(w),
                                 wave_spectra_statistics_error(
                                     fs_tenths, lf_cutoff, edge_peak)>>)]

\* The names of the nine lists of lines 1131-1140 that are appended to, and
\* the statistic each holds (lines 1190-1198).
ListNames ==
    {"significant_wave_height", "peak_wave_period", "average_wave_height",
     "average_wave_period", "peak_wave_direction_puv", "peak_wave_spread_puv",
     "peak_wave_period_puv", "significant_wave_height_puv",
     "sample_start_time"}

\* A plausible slip: the start time is appended once more than the rest.
appended_twice(ls, b) ==
    [name \in ListNames |->
        IF name = "sample_start_time"
        THEN Append(Append(ls[name], b.tstart), b.tstart)
        ELSE Append(ls[name], [stat |-> name, sample |-> b.sample])]

\* lines 1190-1198: one value appended to each list.
appended(ls, b) ==
    [name \in ListNames |->
        Append(ls[name],
               IF name = "sample_start_time" THEN b.tstart
               ELSE [stat |-> name, sample |-> b.sample])]

\* build_dataset (lines 1003-1098): the deployment array is
\* ones * int(deployment), int() raising TypeError for more than one
\* deployment number; xr.Dataset raises ValueError when a variable and the
\* time coordinate differ in length; every variable, the coordinate time
\* included, is given ATTRS[var].
build_dataset(ls, dep) ==
    LET sample_start_time == ls["sample_start_time"]
        data_vars ==
            [significant_wave_height |-> ls["significant_wave_height"],
             peak_wave_period |-> ls["peak_wave_period"],
             mean_wave_height |-> ls["average_wave_height"],
             mean_wave_period |-> ls["average_wave_period"],
             peak_wave_direction |-> ls["peak_wave_direction_puv"],
             peak_wave_spread |-> ls["peak_wave_spread_puv"],
             peak_wave_period_puv |-> ls["peak_wave_period_puv"],
             wave_height_hm0 |-> ls["significant_wave_height_puv"],
             deployment |-> [k \in 1..Len(sample_start_time) |-> dep[1]]]
    IN  IF Len(dep) # 1 THEN [error |-> "TypeError"]
        ELSE IF \E v \in DOMAIN data_vars :
                    Len(data_vars[v]) # Len(sample_start_time)
        THEN [error |-> "ValueError"]
        ELSE [error |-> "none",
              time |-> sample_start_time,
              data_vars |-> data_vars,
              attrs |-> [v \in DOMAIN data_vars \cup {"time"} |-> ATTRS[v]]]

\* The rows of a dataset of bursts of the given lengths: the time of every
\* row, SampleStep apart within a burst and BurstGap between bursts.
RECURSIVE BurstTimes(_, _)
BurstTimes(lens, t0) ==
    IF lens = <<>> THEN <<>>
    ELSE [k \in 1..Head(lens) |-> t0 + (k - 1) * SampleStep]
         \o BurstTimes(Tail(lens), t0 + (Head(lens) - 1) * SampleStep + BurstGap)

\* lf_cutoff in hundredths of a hertz: none, the default of wave_spectra
\* (line 678) and one above every Nyquist frequency drawn.
LfCutoffChoices == {0, 3, 100}

CwsInit ==
    /\ \E lens \in SeqsOfLen(LenChoices, 1, MaxBursts) :
           /\ ds_time = BurstTimes(lens, 0)
           /\ \E last \in {1, 2} :
                  ds_deployment =
                      [k \in 1..SeqSum(lens) |->
                          IF k > SeqSum(lens) - lens[Len(lens)] THEN last ELSE 1]
    /\ cw_n_std \in {2, 4}
    /\ cw_fs \in {1, 2}
    /\ cw_order \in {2, 4}
    /\ cw_lf_cutoff \in LfCutoffChoices
    /\ wanted \in [threshold : {600, 2400}, iters : {3}]
    /\ ds_sample = <<>>
    /\ todo = <<>>
    /\ lists = <<>>
    /\ calls = <<>>
    /\ wave_stats = <<>>
    /\ cw_error = "none"
    /\ cws_pc = "call"
    /\ CwsOthersIdle

\* lines 1111-1146: sample = identify_samples(ds, 2400), the empty lists.
CwsIdentifySamples ==
    /\ cws_pc = "call"
    /\ \E s \in {identify_samples(ds_time, pipeline_threshold)} :
           /\ ds_sample' = s
           /\ todo' = unique(s)
    /\ lists' = [name \in ListNames |-> <<>>]
    /\ cws_pc' = "loop"
    /\ UNCHANGED <<ds_time, ds_deployment, cw_n_std, cw_fs, cw_order,
                   cw_lf_cutoff, wanted,
                   calls, wave_stats, cw_error>>
    /\ UNCHANGED cwsOthers

\* lines 1148-1199: one pass of `for sample in np.unique(ds.sample)`.  An
\* exception raised in the pass is not caught: it ends the run.
CwsProcessBurst ==
    /\ cws_pc = "loop"
    /\ todo # <<>>
    /\ \E high \in BOOLEAN, edge_peak \in BOOLEAN :
       \E b \in {process_burst(Head(todo), ds_time, ds_sample, cw_fs,
                               cw_order, cw_lf_cutoff, high, edge_peak)} :
           /\ calls' = Append(calls, b)
           /\ IF b.error = "none"
              THEN /\ lists' = appended(lists, b)
                   /\ todo' = Tail(todo)
                   /\ UNCHANGED <<cw_error, cws_pc>>
              ELSE /\ cw_error' = b.error
                   /\ cws_pc' = "raised"
                   /\ UNCHANGED <<lists, todo>>
    /\ UNCHANGED <<ds_time, ds_deployment, cw_n_std, cw_fs, cw_order,
                   cw_lf_cutoff, wanted,
                   ds_sample, wave_stats>>
    /\ UNCHANGED cwsOthers

\* lines 1203-1210: deployment = np.unique(ds.deployment), build_dataset.
CwsBuildDataset ==
    /\ cws_pc = "loop"
    /\ todo = <<>>
    /\ \E r \in {build_dataset(lists, unique(ds_deployment))} :
           IF r.error = "none"
           THEN /\ wave_stats' = r
                /\ cws_pc' = "done"
                /\ UNCHANGED cw_error
           ELSE /\ cw_error' = r.error
                /\ cws_pc' = "raised"
                /\ UNCHANGED wave_stats
    /\ UNCHANGED <<ds_time, ds_deployment, cw_n_std, cw_fs, cw_order,
                   cw_lf_cutoff, wanted,
                   ds_sample, todo, lists, calls>>
    /\ UNCHANGED cwsOthers

CwsNext == CwsIdentifySamples \/ CwsProcessBurst \/ CwsBuildDataset

CwsSpec == CwsInit /\ [][CwsNext]_vars

\* ---- properties of the pipeline ----

\* The nine output variables of the dataset, and the attribute keys each
\* is to carry.
OutputVariables ==
    {"significant_wave_height", "peak_wave_period", "mean_wave_height",
     "mean_wave_period", "peak_wave_direction", "peak_wave_spread",
     "peak_wave_period_puv", "wave_height_hm0", "deployment"}
RequiredKeys == {"long_name", "standard_name", "units", "type", "comment"}

\* C15 (as claimed): in the dataset returned, each of the nine output
\* variables carries long_name, standard_name, units, type and comment,
\* the type being 'zero-crossing' or 'directional'.
C15_EveryVariableHasMetadata ==
    cws_pc = "done"
    => \A v \in OutputVariables :
           /\ v \in DOMAIN wave_stats.attrs
           /\ RequiredKeys \subseteq DOMAIN wave_stats.attrs[v]
           /\ wave_stats.attrs[v]["type"] \in {"zero-crossing", "directional"}

\* C17 (as claimed): for every burst processed, the gap threshold the
\* bursts were segmented with and the n_std and iters of every despike call
\* are the caller's.
C17_SettingsAreTheCallers ==
    \A k \in 1..Len(calls) :
        /\ calls[k].identify_threshold = wanted.threshold
        /\ \A c \in DOMAIN calls[k].despike :
               /\ calls[k].despike[c].n_std = cw_n_std
               /\ calls[k].despike[c].iters = wanted.iters

\* The burst has too few samples for the spectra: the trimmed window is
\* empty, or fewer than 10 frequencies reach log_avg.
TooShort(b) ==
    LET w == Len(b.incr)
    IN  w = 0 \/ (w - (w % 2)) \div 2 < 10

\* C18 (as claimed): a burst that is too short ends its processing in the
\* one 'insufficient data' error, not in a generic error and not in a
\* record.
C18_TooShortIsInsufficientData ==
    \A k \in 1..Len(calls) :
        TooShort(calls[k])
        => /\ k = Len(calls)
           /\ cws_pc = "raised"
           /\ cw_error = "InsufficientData"

\* The burst ids of the dataset, in increasing order.
BurstIds == unique(ds_sample)

\* C19: while the bursts are processed and when the dataset is built, the
\* nine lists have the same length; the dataset returned has one record per
\* burst id, in increasing order of the ids, and the time of a record is
\* the earliest time of the rows of its burst.
C19_OneRecordPerBurst ==
    /\ cws_pc \in {"loop", "done"}
       => \A name \in ListNames :
              Len(lists[name]) = Len(lists["sample_start_time"])
    /\ cws_pc = "done"
       => /\ Len(wave_stats.time) = Cardinality(Range(ds_sample))
          /\ \A v \in DOMAIN wave_stats.data_vars :
                 Len(wave_stats.data_vars[v]) = Len(wave_stats.time)
          /\ \A j \in 1..Len(wave_stats.time) :
                 /\ \A v \in DOMAIN wave_stats.data_vars \ {"deployment"} :
                        wave_stats.data_vars[v][j].sample = BurstIds[j]
                 /\ wave_stats.time[j] =
                        SetMin({ds_time[k] : k \in {i \in 1..Len(ds_time) :
                                                ds_sample[i] = BurstIds[j]}})
          /\ \A j \in 1..(Len(wave_stats.time) - 1) :
                 wave_stats.data_vars["peak_wave_period"][j].sample
                     < wave_stats.data_vars["peak_wave_period"][j + 1].sample

\* C19 witness: a dataset of two records was returned, the second later
\* than the first.
C19_Witness ==
    /\ cws_pc = "done"
    /\ Len(wave_stats.time) = 2
    /\ wave_stats.time[1] < wave_stats.time[2]
    /\ Len(lists["significant_wave_height"]) = 2

(***************************************************************************)
(* Burst loop arrays: Platform, Deg_rate and Compass of                    *)
(* calculate_wave_statistics (lines 1124-1168) and the despiking uvw_xyz   *)
(* does on the per-burst arrays cut from them (lines 539-549).  Whether    *)
(* the rest of the pass returns is told as for the pipeline entry point.   *)
(***************************************************************************)

\* Bounds: the most bursts in a dataset and the rows of a burst.
MaxIsoBursts == 2
IsoLen == 36

\* One period of the vertical acceleration of a burst: gravity and a swell
\* of two cycles in five samples.
Swell == <<10, 12, 7, 13, 8>>


\* A[:, index] for an integer array index: numpy advanced indexing, which
\* gives a new array (base "copy"); a write to it does not reach A.
fancy_index(A, index) ==
    [data |-> [r \in 1..Len(A) |-> [k \in 1..Len(index) |-> A[r][index[k] + 1]]],
     base |-> "copy"]

\* A plausible slip: the burst is cut out with a slice, A[:, lo:hi], which
\* gives a view: a write to it is a write to A.
slice_index(A, index) ==
    [data |-> [r \in 1..Len(A) |-> [k \in 1..Len(index) |-> A[r][index[k] + 1]]],
     base |-> "view"]

\* platform = Platform[:, index] (lines 1162-1163).
burst_columns(A, index) == fancy_index(A, index)

\* What the array A holds after the per-burst array cut at `index` was
\* written in place with the values `written`.
after_write(A, index, cut, written) ==
    IF cut.base = "copy" THEN A
    ELSE [r \in 1..Len(A) |->
             [p \in 1..Len(A[r]) |->
                 IF \E k \in 1..Len(index) : index[k] + 1 = p
                 THEN written[r][CHOOSE k \in 1..Len(index) : index[k] + 1 = p]
                 ELSE A[r][p]]]

\* lines 539-549 of uvw_xyz on the arrays of one burst: despike(platform),
\* despike(angular_rates), gx = cos(gyro), gy = sin(gyro), despike(gx),
\* despike(gy), all with the defaults of despike.
uvw_xyz_despiked(platform, angular_rates, gyro) ==
    LET gx == <<[k \in 1..Len(gyro) |-> Num(cos(gyro[k]))]>>
        gy == <<[k \in 1..Len(gyro) |-> Num(sin(gyro[k]))]>>
        out(p, a, x, y) ==
            [platform |-> p.data, bad_platform |-> p.bad,
             ang_rate |-> a.data, bad_ang_rate |-> a.bad,
             gx |-> x.data, gy |-> y.data]
    IN  CHOOSE o \in
            {out(p, a, x, y) :
                p \in {despike(platform, despike_n_std, despike_iters)},
                a \in {despike(angular_rates, despike_n_std, despike_iters)},
                x \in {despike(gx, despike_n_std, despike_iters)},
                y \in {despike(gy, despike_n_std, despike_iters)}} : TRUE

\* A series of n values, `level` everywhere but `spike` at position at
\* (no spike when at is 0).
Spiked(n, level, at, spike) == [k \in 1..n |-> IF k = at THEN spike ELSE level]

\* The rows of one burst: the x acceleration, the x rate and the heading,
\* each steady with at most one spike.
BurstChoices ==
    [acc : {Spiked(IsoLen, Num(0), at, Num(3)) : at \in {0, IsoLen \div 2}},
     rate : {Spiked(IsoLen, Num(1), 1, Num(0))},
     head : {Spiked(IsoLen, 0, at, 1) : at \in {0, IsoLen}}]

\* The rows of all bursts, one after the other.
RECURSIVE Joined(_, _)
Joined(bursts, field) ==
    IF bursts = <<>> THEN <<>>
    ELSE Head(bursts)[field] \o Joined(Tail(bursts), field)

IsoInit ==
    /\ \E bursts \in SeqsOfLen(BurstChoices, 1, MaxIsoBursts) :
           /\ Platform = <<Joined(bursts, "acc"),
                           [k \in 1..(Len(bursts) * IsoLen) |-> Num(0)],
                           [k \in 1..(Len(bursts) * IsoLen) |->
                               Num(Swell[(k % Len(Swell)) + 1])]>>
           /\ Deg_rate = <<Joined(bursts, "rate"),
                           [k \in 1..(Len(bursts) * IsoLen) |-> Num(0)],
                           [k \in 1..(Len(bursts) * IsoLen) |-> Num(0)]>>
           /\ Compass = Joined(bursts, "head")
           /\ iso_sample = [k \in 1..(Len(bursts) * IsoLen) |-> (k - 1) \div IsoLen]
    /\ Platform0 = Platform
    /\ Deg_rate0 = Deg_rate
    /\ Compass0 = Compass
    /\ iso_fs \in {1, 2}
    /\ iso_order = 2
    /\ iso_lf_cutoff \in {SetMin(LfCutoffChoices), SetMax(LfCutoffChoices)}
    /\ iso_todo = unique(iso_sample)
    /\ iso_out = <<>>
    /\ iso_pc = "loop"
    /\ IsoOthersIdle

\* The exception that ends a pass over a burst of n samples, "none" when
\* the pass completes (lines 1168-1199); high and edge_peak as for
\* process_burst.
pass_error(n, fs_tenths, order, lf_cutoff, high, edge_peak) ==
    LET w == Len(incr_of(n, edge_of(fs_tenths)))
    IN  first_error(<<uvw_xyz(n, order).error,
                      wave_statistics_error(w, high),
                      wave_spectra_error(w),
                      wave_spectra_statistics_error(
                          fs_tenths, lf_cutoff, edge_peak)>>)

\* One pass of the burst loop, lines 1148-1199: the arrays of the burst are
\* cut from Platform, Deg_rate and Compass and handed to uvw_xyz, which
\* despikes them in place.  An exception raised later in the pass is not
\* caught: it ends the loop.
IsoProcessBurst ==
    /\ iso_pc = "loop"
    /\ iso_todo # <<>>
    /\ LET index == where_equal(iso_sample, Head(iso_todo))
           platform == burst_columns(Platform, index)
           deg_rate == burst_columns(Deg_rate, index)
           gyro == burst_columns(<<Compass>>, index)
       IN  \E r \in {uvw_xyz_despiked(platform.data, deg_rate.data, gyro.data[1])} :
           \E high \in BOOLEAN, edge_peak \in BOOLEAN :
           \E error \in {pass_error(Len(index), iso_fs, iso_order,
                                     iso_lf_cutoff, high, edge_peak)} :
               /\ iso_out' = Append(iso_out, [sample |-> Head(iso_todo),
                                              index |-> index,
                                              despiked |-> r,
                                              error |-> error])
               /\ Platform' = after_write(Platform, index, platform, r.platform)
               /\ Deg_rate' = after_write(Deg_rate, index, deg_rate, r.ang_rate)
               /\ Compass' = Compass
               /\ IF error = "none"
                  THEN iso_todo' = Tail(iso_todo) /\ iso_pc' = iso_pc
                  ELSE iso_todo' = iso_todo /\ iso_pc' = "raised"
    /\ UNCHANGED <<Platform0, Deg_rate0, Compass0, iso_fs, iso_order,
                   iso_lf_cutoff, iso_sample>>
    /\ UNCHANGED isoOthers

\* The loop ends.
IsoLoopEnd ==
    /\ iso_pc = "loop"
    /\ iso_todo = <<>>
    /\ iso_pc' = "done"
    /\ UNCHANGED <<Platform, Deg_rate, Compass, Platform0, Deg_rate0, Compass0,
                   iso_fs, iso_order, iso_lf_cutoff, iso_sample, iso_todo,
                   iso_out>>
    /\ UNCHANGED isoOthers

IsoNext == IsoProcessBurst \/ IsoLoopEnd

IsoSpec == IsoInit /\ [][IsoNext]_vars

\* ---- properties of the burst loop arrays ----

\* C21: the process-wide arrays Platform, Deg_rate and Compass hold what
\* they held before the loop, whatever bursts were processed, and what
\* uvw_xyz worked out for a burst is what it works out from that burst's
\* rows of the original arrays alone.
C21_BurstsAreIsolated ==
    /\ Platform = Platform0
    /\ Deg_rate = Deg_rate0
    /\ Compass = Compass0
    /\ \A j \in 1..Len(iso_out) :
           iso_out[j].despiked =
               uvw_xyz_despiked(
                   fancy_index(Platform0, iso_out[j].index).data,
                   fancy_index(Deg_rate0, iso_out[j].index).data,
                   fancy_index(<<Compass0>>, iso_out[j].index).data[1])

\* C21 witness: two bursts were processed to the end of their pass and in
\* the first despike replaced a spike of the acceleration in place.
C21_Witness ==
    /\ iso_pc = "done"
    /\ Len(iso_out) = 2
    /\ iso_out[1].error = "none"
    /\ iso_out[1].despiked.bad_platform[1] = 1
    /\ iso_out[1].despiked.platform[1]
           # fancy_index(Platform0, iso_out[1].index).data[1]

\* ---- edge trimming in the burst loop (lines 1145-1146, 1170-1185) ----

\* The samples of a burst of n that the window incr leaves out before its
\* first index and after its last one.
dropped_at_start(incr) == incr[1]
dropped_at_end(incr, n) == (n - 1) - incr[Len(incr)]

\* C22: for a burst of n >= 2 * edge samples and edge >= 1, every index of
\* the window handed to the wave statistics is an index of the burst, and
\* the window leaves out edge samples at the start and edge samples at the
\* end.
C22_TrimIsSymmetric ==
    \A j \in 1..Len(calls) :
        LET n == Len(calls[j].index)
            edge == edge_of(cw_fs)
            incr == calls[j].incr
        IN  (edge >= 1 /\ n >= 2 * edge) =>
                /\ incr # <<>>
                /\ \A k \in 1..Len(incr) : incr[k] \in 0..(n - 1)
                /\ dropped_at_start(incr) = edge
                /\ dropped_at_end(incr, n) = edge

(***************************************************************************)
(* Compass headings: magnetometer (lines 869-917).  Angles are in          *)
(* micro-radians, as for the mean direction.                               *)
(***************************************************************************)

\* Bound: the most readings in a dataset.
MaxMagLen == 2

\* dev = -10*np.pi/180 (line 900), in micro-radians.
mag_dev == -174533

\* np.pi in micro-radians, as arctan2 gives it.
pi == two_pi \div 2

\* np.arctan2(y, x) also for the pairs a little off the negative x axis,
\* where it is arctan2(-y, -x) moved by pi to the side of y.
arctan2_around(y, x) ==
    IF x < 0 /\ y # 0 /\ 1000 * y <= -x /\ -1000 * y <= -x
    THEN (IF y > 0 THEN pi ELSE -pi) + arctan2(-y, -x)
    ELSE arctan2(y, x)

\* lines 900-915 for one reading: the heading with the misalignment added,
\* pi taken off above pi, pi added below -pi, and the sign turned.
heading(my, mx) ==
    LET raw == arctan2_around(-1 * my, mx) + mag_dev
        low == IF raw > pi THEN raw - pi ELSE raw
        corrected == IF low < -1 * pi THEN low + pi ELSE low
    IN  -1 * corrected

\* magnetometer(data): the heading of every reading.
magnetometer(mx, my) == [k \in 1..Len(mx) |-> heading(my[k], mx[k])]

\* The readings <<magy, magx>> drawn: the compass points and the origin, and
\* readings a little off the negative x axis.  A reading with magy = 0 and
\* magx < 0 is not drawn: the sign of the zero -1*magy decides there between
\* pi and -pi.
ReadingChoices ==
    (({-1, 0, 1} \X {-1, 0, 1}) \ {<<0, -1>>})
    \cup {<<1, -100000>>, <<3, -100000>>, <<-1, -100000>>, <<1, -10000>>}

MagInit ==
    /\ \E rs \in SeqsOfLen(ReadingChoices, 1, MaxMagLen) :
           /\ magy = [k \in 1..Len(rs) |-> rs[k][1]]
           /\ magx = [k \in 1..Len(rs) |-> rs[k][2]]
    /\ compass = <<>>
    /\ mag_pc = "call"
    /\ MagOthersIdle

Magnetometer ==
    /\ mag_pc = "call"
    /\ compass' = magnetometer(magx, magy)
    /\ mag_pc' = "done"
    /\ UNCHANGED <<magx, magy>>
    /\ UNCHANGED magOthers

MagNext == Magnetometer

MagSpec == MagInit /\ [][MagNext]_vars

\* ---- properties of the compass headings ----

\* d is a whole number of turns, to within the rounding of the angles.
WholeTurns(d) == \E turns \in -1..1 : Abs(d - turns * two_pi) <= 2

\* C23: every heading returned lies in [-pi, pi] and differs from
\* -(atan2(-magy, magx) - 10 degrees) by a whole multiple of 2*pi only: the
\* correction does not change the physical direction.
C23_CorrectionKeepsDirection ==
    mag_pc = "done" =>
        \A k \in 1..Len(compass) :
            /\ compass[k] >= -pi - 1
            /\ compass[k] <= pi + 1
            /\ WholeTurns(compass[k]
                          - (-1 * (arctan2_around(-1 * magy[k], magx[k]) + mag_dev)))

(***************************************************************************)
(* PUV spectra: wave_spectra (lines 678-815) from the band averages on.    *)
(* The band averages F, Cuu, Cvv, Cpp, Cpu, Cpv, Cuv, dF, Ns, Ne of lines  *)
(* 736-781 are computed from u, v, p, dt and nF only; they are the input.  *)
(***************************************************************************)

\* Bound: the most bands log_avg returns.
MaxSpecLen == 2

\* The whole number r with r * r = n (n a square).
sqrt(n) == CHOOSE r \in 0..n : r * r = n
IsSquare(n) == \E r \in 0..n : r * r = n

\* R2 = ((Cuu - Cvv)**2 + 4*Cuv**2)**0.5 / (Cuu + Cvv) as a quotient
\* (line 806); 0/0 is not a number.
R2_radicand(b) == (b.Cuu - b.Cvv) * (b.Cuu - b.Cvv) + 4 * b.Cuv * b.Cuv
R2(b) == <<sqrt(R2_radicand(b)), b.Cuu + b.Cvv>>

\* (1 - R2) / 2 as a reduced quotient.
half_one_less(q) == Reduce(<<q[2] - q[1], 2 * q[2]>>)

\* Ts = 57.296 * ((1 - R2) / 2)**0.5 in micro-degrees, rounded down
\* (line 807); not a number for 0/0.
spread(b) ==
    IF b.Cuu + b.Cvv = 0 THEN NaN
    ELSE LET h == half_one_less(R2(b))
         IN  Num((deg_per_rad * 1000 * sqrt(h[1])) \div sqrt(h[2]))

\* The bands whose spread the whole-number square roots give exactly.
exactly_rooted(b) ==
    /\ IsSquare(R2_radicand(b))
    /\ b.Cuu + b.Cvv # 0 =>
           LET h == half_one_less(R2(b))
           IN  h[1] >= 0 /\ IsSquare(h[1]) /\ IsSquare(h[2])

\* The indices of s, from 1, whose element satisfies F > lf_cutoff:
\* aa = np.where(F > lf_cutoff)[0] (line 784).
above_cutoff(bands, lf_cutoff) ==
    SortedSeq({k \in 1..Len(bands) : bands[k].F > lf_cutoff})

\* A plausible slip: the north offset n_dir (degrees) is added to the
\* direction returned.
Tdir_with_north(tdir, n_dir) ==
    [k \in 1..Len(tdir) |->
        IF tdir[k].nan THEN NaN ELSE Num(tdir[k].v + 1000000 * n_dir)]

\* The direction returned: what lines 805 and 811-813 left.
Tdir_returned(tdir, n_dir) == tdir

\* wave_spectra from line 783 on: the bands above the cutoff are kept, the
\* spectra, direction and spread worked out, and direction and spread set
\* to not-a-number below min_spec.  max_fac, n_dir, hp and hv are parsed
\* (lines 732-735) or received (line 678).
wave_spectra(bands, lf_cutoff, minspec, max_fac, n_dir, hp, hv) ==
    LET aa == above_cutoff(bands, lf_cutoff)
        kept == [k \in 1..Len(aa) |-> bands[aa[k]]]
        lF == Len(aa)
        p_spec == [k \in 1..lF |-> kept[k].Cpp]
        tdir == wave_spectra_Tdir([k \in 1..lF |-> kept[k].Cpu],
                                  [k \in 1..lF |-> kept[k].Cpv],
                                  p_spec, minspec)
    IN  [u_spectra |-> [k \in 1..lF |-> kept[k].Cuu + kept[k].Cvv],
         p_spectra |-> p_spec,
         Tdir |-> Tdir_returned(tdir, n_dir),
         Ts |-> [k \in 1..lF |->
                    IF p_spec[k] < minspec THEN NaN ELSE spread(kept[k])],
         F |-> [k \in 1..lF |-> kept[k].F],
         dF |-> [k \in 1..lF |-> kept[k].dF],
         dof |-> [k \in 1..lF |-> 2 * (kept[k].Ne - kept[k].Ns + 1)]]

\* The band averages of one band, but for F, dF, Ns and Ne.
power(cuu, cvv, cuv, cpp, cpu, cpv) ==
    [Cuu |-> cuu, Cvv |-> cvv, Cuv |-> cuv, Cpp |-> cpp, Cpu |-> cpu, Cpv |-> cpv]

\* The band averages drawn: auto-spectra that are not negative, a
\* co-spectrum Cuv with Cuv^2 <= Cuu*Cvv, <<Cpu, Cpv>> among the pairs
\* arctan2 is given for, and a spread the whole-number roots give exactly.
PowerChoices ==
    {pw \in {power(1, 3, 0, 2, 1, 0), power(0, 0, 0, 0, -1, 1),
             power(2, 2, 1, 2, -1, 1), power(4, 1, 2, 0, 1, 1),
             power(1, 0, 0, 2, -1, 0), power(1, 3, 0, 0, 1, 1)} :
        /\ pw.Cuv * pw.Cuv <= pw.Cuu * pw.Cvv
        /\ exactly_rooted(pw)}

\* Band k of a spectrum: the centre frequency in hundredths of a hertz, the
\* width and the first and last index averaged grow with k.
band_of(pw, k) ==
    [Cuu |-> pw.Cuu, Cvv |-> pw.Cvv, Cuv |-> pw.Cuv, Cpp |-> pw.Cpp,
     Cpu |-> pw.Cpu, Cpv |-> pw.Cpv,
     F |-> 2 * k, dF |-> k, Ns |-> (k * (k - 1)) \div 2, Ne |-> (k * (k + 1)) \div 2 - 1]

\* The values of max_fac, n_dir, hp and hv drawn.
RestChoices == [max_fac : {1, 200}, n_dir : {0, 90}, hp : {0, 5}, hv : {0, 1}]

\* params = [0.03, 200, 0.1, 0] (line 678) with hp = hv = 0 (line 1187).
rest_default == [max_fac |-> 200, n_dir |-> 0, hp |-> 0, hv |-> 0]
rest_other == [max_fac |-> 1, n_dir |-> 90, hp |-> 5, hv |-> 1]

SpInit ==
    /\ \E pws \in SeqsOfLen(PowerChoices, 1, MaxSpecLen) :
           sp_bands = [k \in 1..Len(pws) |-> band_of(pws[k], k)]
    /\ sp_lf_cutoff \in {0, 3}
    /\ sp_min_spec \in {0, 1}
    /\ \E first \in RestChoices, second \in {rest_default, rest_other} :
           sp_rest = <<first, second>>
    /\ sp_out = <<>>
    /\ sp_pc = "calls"
    /\ SpOthersIdle

\* The next call of wave_spectra, with the same u, v, p, dt, nF, lf_cutoff
\* and min_spec and its own max_fac, n_dir, hp and hv.
WaveSpectraCall ==
    /\ sp_pc = "calls"
    /\ Len(sp_out) < Len(sp_rest)
    /\ LET r == sp_rest[Len(sp_out) + 1]
       IN  sp_out' = Append(sp_out,
                            wave_spectra(sp_bands, sp_lf_cutoff, sp_min_spec,
                                         r.max_fac, r.n_dir, r.hp, r.hv))
    /\ UNCHANGED <<sp_bands, sp_lf_cutoff, sp_min_spec, sp_rest, sp_pc>>
    /\ UNCHANGED spOthers

\* Both calls have returned.
WaveSpectraCallsEnd ==
    /\ sp_pc = "calls"
    /\ Len(sp_out) = Len(sp_rest)
    /\ sp_pc' = "done"
    /\ UNCHANGED <<sp_bands, sp_lf_cutoff, sp_min_spec, sp_rest, sp_out>>
    /\ UNCHANGED spOthers

SpNext == WaveSpectraCall \/ WaveSpectraCallsEnd

SpSpec == SpInit /\ [][SpNext]_vars

\* ---- properties of the PUV spectra ----

\* C24: two calls of wave_spectra that differ only in max_fac, n_dir, hp or
\* hv return the same seven arrays; the direction returned is
\* 57.296*arctan3(Cpu, Cpv) with no north offset added, and a band's
\* direction is not-a-number only where p_spectra is below min_spec.
C24_RestOfParametersIsIgnored ==
    sp_pc = "done" =>
        /\ sp_out[1] = sp_out[2]
        /\ \A c \in 1..2 : \A k \in 1..Len(sp_out[c].Tdir) :
               LET b == sp_bands[above_cutoff(sp_bands, sp_lf_cutoff)[k]]
               IN  /\ sp_out[c].Tdir[k].nan <=> sp_out[c].p_spectra[k] < sp_min_spec
                   /\ ~sp_out[c].Tdir[k].nan =>
                          sp_out[c].Tdir[k].v = scale_to_degrees(arctan3(b.Cpu, b.Cpv))

\* C24 witness: the two calls differed in max_fac, n_dir, hp and hv, and
\* returned a band with a direction and a band without.
C24_Witness ==
    /\ sp_pc = "done"
    /\ sp_rest[1].max_fac # sp_rest[2].max_fac
    /\ sp_rest[1].n_dir # sp_rest[2].n_dir
    /\ sp_rest[1].hp # sp_rest[2].hp
    /\ sp_rest[1].hv # sp_rest[2].hv
    /\ \E k \in 1..Len(sp_out[1].Tdir) : ~sp_out[1].Tdir[k].nan
    /\ \E k \in 1..Len(sp_out[1].Tdir) : sp_out[1].Tdir[k].nan

(***************************************************************************)
(* fdchp file loop: the module-level loop of examples/fdchp/fdchp_test.py  *)
(* (lines 43-86).  A file is known by its position in files.               *)
(***************************************************************************)

\* Bound: the most files glob returns.
MaxFiles == 3

\* Whether read_file_to_pandas returns for a file, and whether
\* process_fdchp returns for the data read from it.
FileChoices == [reads : BOOLEAN, processes : BOOLEAN]

\* lines 64-68: raw_data is bound to what was read; a read that raises is
\* recorded in errors and leaves the name raw_data as it was.
after_read(fls, k, bound, errs) ==
    IF fls[k].reads THEN [raw_data |-> k, errors |-> errs]
    ELSE [raw_data |-> bound, errors |-> errs \cup {k}]

\* lines 75-80: process_fdchp(raw_data, ...) returns, or raises (the
\* NameError of an unbound raw_data included) and the pass ends at continue.
process_returns(fls, bound) == bound # 0 /\ fls[bound].processes

FlInit ==
    /\ files \in SeqsOfLen(FileChoices, 1, MaxFiles)
    /\ fl_next = 1
    /\ raw_data = 0
    /\ errors = {}
    /\ uw = <<>>
    /\ fl_U = <<>>
    /\ sigH = <<>>
    /\ fl_incr = 0
    /\ fl_pc = "loop"
    /\ FlOthersIdle

\* One pass of the loop, lines 46-86.
FileLoopPass ==
    /\ fl_pc = "loop"
    /\ fl_next <= Len(files)
    /\ LET rd == after_read(files, fl_next, raw_data, errors)
       IN  /\ raw_data' = rd.raw_data
           /\ errors' = rd.errors
           /\ IF process_returns(files, rd.raw_data)
              THEN LET entry == [pass |-> fl_next, of |-> rd.raw_data]
                   IN  /\ uw' = Append(uw, entry)
                       /\ fl_U' = Append(fl_U, entry)
                       /\ sigH' = Append(sigH, entry)
                       /\ fl_incr' = fl_incr + 1
              ELSE UNCHANGED <<uw, fl_U, sigH, fl_incr>>
    /\ fl_next' = fl_next + 1
    /\ UNCHANGED <<files, fl_pc>>
    /\ UNCHANGED flOthers

\* The loop ends (lines 88-90).
FileLoopEnd ==
    /\ fl_pc = "loop"
    /\ fl_next > Len(files)
    /\ fl_pc' = "done"
    /\ UNCHANGED <<files, fl_next, raw_data, errors, uw, fl_U, sigH, fl_incr>>
    /\ UNCHANGED flOthers

FlNext == FileLoopPass \/ FileLoopEnd

FlSpec == FlInit /\ [][FlNext]_vars

\* ---- properties of the fdchp file loop ----

\* The passes that added an entry to the list s.
passes_of(s) == {s[j].pass : j \in 1..Len(s)}

\* C25: after every pass, each file passed whose read raised is recorded in
\* errors and its pass added no entry to uw, U or sigH, and the counter incr
\* is the number of entries of each of uw, U and sigH.
C25_FailedReadAddsNothing ==
    /\ \A k \in 1..(fl_next - 1) :
           ~files[k].reads =>
               /\ k \in errors
               /\ k \notin passes_of(uw) \cup passes_of(fl_U) \cup passes_of(sigH)
    /\ fl_incr = Len(uw)
    /\ fl_incr = Len(fl_U)
    /\ fl_incr = Len(sigH)

====
